---- MODULE Spec2Model ----
(***************************************************************************)
(* TODO API (FastAPI + asyncpg): token-based identity resolution, the user *)
(* repository and the ownership-scoped todo repository.                    *)
(*                                                                         *)
(* Strings are sequences of one-character strings.  Optional values are    *)
(* records [some, val].  Tables are sets of rows.  Time is in seconds.     *)
(***************************************************************************)
EXTENDS Integers, Sequences, FiniteSets, TLC

VARIABLES
    users,      \* table users
    userSeq,    \* last value of the serial users.id
    todos,      \* table todos
    todoSeq,    \* last value of the serial todos.id
    now,        \* the clock (seconds)
    last,       \* the last request served, with its response
    prev,       \* the request served before it (kept by SpecCreate only)
    scan,       \* the pages a client has fetched in a row (SpecPage only)
    procs,      \* requests in flight (SpecRegister, SpecRace)
    issued,     \* tokens issued, with when and for how long (SpecToken only)
    pool,       \* the idle connections of the asyncpg pool (SpecPool only)
    migrations, \* table migrations: the filenames recorded (SpecMigrate only)
    executed    \* the migration files whose SQL ran, in order (SpecMigrate only)

\* the state outside the tables that the routes of the API never touch
infra == <<pool, migrations, executed>>

vars ==
    <<users, userSeq, todos, todoSeq, now, last, prev, scan, procs, issued,
      pool, migrations, executed>>

(***************************************************************************)
(* Optional values and strings                                             *)
(***************************************************************************)
None == [some |-> FALSE, val |-> <<>>]
Some(v) == [some |-> TRUE, val |-> v]


\* characters str.isspace() / str.strip() treat as whitespace
WS == {" ", "\t"}

\* str.lower() on one character
LowerChar(c) ==
    CASE c = "A" -> "a"
      [] c = "B" -> "b"
      [] c = "C" -> "c"
      [] c = "D" -> "d"
      [] c = "I" -> "i"
      [] c = "P" -> "p"
      [] c = "R" -> "r"
      [] c = "S" -> "s"
      [] c = "T" -> "t"
      [] OTHER -> c

Lower(s) == [i \in 1..Len(s) |-> LowerChar(s[i])]

IsSpace(s) == s # <<>> /\ \A i \in 1..Len(s) : s[i] \in WS

RECURSIVE LStrip(_)
LStrip(s) == IF s # <<>> /\ Head(s) \in WS THEN LStrip(Tail(s)) ELSE s

RECURSIVE RStrip(_)
RStrip(s) ==
    IF s # <<>> /\ s[Len(s)] \in WS THEN RStrip(SubSeq(s, 1, Len(s) - 1)) ELSE s

Strip(s) == RStrip(LStrip(s))

\* Python's `sub in s`
Contains(s, sub) ==
    \E i \in 0..(Len(s) - Len(sub)) : \A j \in 1..Len(sub) : s[i + j] = sub[j]

ScriptOpen == <<"<", "s", "c", "r", "i", "p", "t">>
ScriptClose == <<"<", "/", "s", "c", "r", "i", "p", "t", ">">>

(***************************************************************************)
(* app/models/schemas.py: request models                                   *)
(***************************************************************************)
TitleMaxLen == 200
DescMaxLen == 1000

Invalid == [ok |-> FALSE, val |-> <<>>]
Valid(v) == [ok |-> TRUE, val |-> v]

\* a validate_title that checks the stripped value but returns the raw one
validate_title_no_strip(v) ==
    IF v = <<>> \/ IsSpace(v)
    THEN Invalid
    ELSE IF Contains(Strip(v), <<"<">>) \/ Contains(Strip(v), <<">">>)
         THEN Invalid
         ELSE Valid(v)

\* TodoCreate.validate_title / TodoPut.validate_title (v is a str)
validate_title(v) ==
    IF v = <<>> \/ IsSpace(v)
    THEN Invalid
    ELSE LET s == Strip(v)
         IN  IF Contains(s, <<"<">>) \/ Contains(s, <<">">>)
             THEN Invalid
             ELSE Valid(s)

\* a validate_description without the script-tag check
validate_description_no_script(v) ==
    IF v.some
    THEN LET s == Strip(v.val)
         IN  IF s = <<>> THEN Valid(None) ELSE Valid(Some(s))
    ELSE Valid(v)

\* validate_description (v is an Optional[str]); the value is an Optional too
validate_description(v) ==
    IF v.some
    THEN LET s == Strip(v.val)
         IN  IF s = <<>>
             THEN Valid(None)
             ELSE IF Contains(Lower(s), ScriptOpen) \/ Contains(Lower(s), ScriptClose)
                  THEN Invalid
                  ELSE Valid(Some(s))
    ELSE Valid(v)

\* Field(..., min_length=1, max_length=200): checked on the raw string, before
\* the field validator runs
title_field(v) ==
    IF Len(v) >= 1 /\ Len(v) <= TitleMaxLen THEN validate_title(v) ELSE Invalid

\* Field(None, max_length=1000)
description_field(v) ==
    IF v.some /\ Len(v.val) > DescMaxLen THEN Invalid ELSE validate_description(v)

\* TodoCreate(title=..., description=...)
TodoCreate(title, description) ==
    LET t == title_field(title)
        d == description_field(description)
    IN  [ok |-> t.ok /\ d.ok, title |-> t.val, description |-> d.val]

\* TodoPut(title=..., description=..., completed=...): description and
\* completed are Optionals, None when the body leaves the field out; an
\* omitted description stays None and an omitted completed is False
TodoPut(title, description, completed) ==
    LET t == title_field(title)
        d == description_field(description)
    IN  [ok |-> t.ok /\ d.ok, title |-> t.val, description |-> d.val,
         completed |-> IF completed.some THEN completed.val ELSE FALSE]

\* TodoPatch.validate_title (v is an Optional[str])
patch_title_field(v) ==
    IF v.some
    THEN IF Len(v.val) >= 1 /\ Len(v.val) <= TitleMaxLen
         THEN LET r == validate_title(v.val)
              IN  [ok |-> r.ok, val |-> IF r.ok THEN Some(r.val) ELSE None]
         ELSE [ok |-> FALSE, val |-> None]
    ELSE [ok |-> TRUE, val |-> None]

\* TodoPatch(title=..., description=..., completed=...), each Optional
TodoPatch(title, description, completed) ==
    LET t == patch_title_field(title)
        d == description_field(description)
    IN  [ok |-> t.ok /\ d.ok, title |-> t.val,
         description |-> IF d.ok THEN d.val ELSE None,
         completed |-> completed]

(***************************************************************************)
(* app/core/security.py: tokens and password hashes                        *)
(***************************************************************************)
ACCESS_TOKEN_EXPIRE_MINUTES == 30
DEFAULT_EXPIRE_MINUTES == 15

\* The clock counts ticks; datetime.utcnow() is finer than the whole seconds
\* a token's exp claim is written in
TicksPerSecond == 2

minutes(m) == m * 60 * TicksPerSecond

\* timegm(dt.utctimetuple()): the whole seconds of a time, the rest dropped
numeric_date(t) == t \div TicksPerSecond

\* the payload has no "sub" claim
NoSub == "<no sub>"

\* A presented bearer string: wellformed (three base64 segments holding JSON),
\* sig_ok (the HS256 signature matches SECRET_KEY), and its claims.
Token(sub, exp, sig_ok) ==
    [wellformed |-> TRUE, sig_ok |-> sig_ok, sub |-> sub, exp |-> exp]
Garbage == [wellformed |-> FALSE, sig_ok |-> FALSE, sub |-> NoSub, exp |-> 0]

\* create_access_token(data={"sub": sub}, expires_delta): expires_delta is an
\* Optional number of ticks; `if expires_delta:` is false for None and for a
\* zero timedelta; jwt.encode writes exp in whole seconds
create_access_token(sub, expires_delta, clock) ==
    LET expire == IF expires_delta.some /\ expires_delta.val # 0
                  THEN clock + expires_delta.val
                  ELSE clock + minutes(DEFAULT_EXPIRE_MINUTES)
    IN  Token(sub, numeric_date(expire), TRUE)

\* pwd_context.hash: a salted one-way digest
get_password_hash(password, salt) ==
    [scheme |-> "bcrypt", salt |-> salt, digest |-> <<salt, password>>]

\* pwd_context.verify: recompute with the stored salt and compare
verify_password(plain_password, hashed_password) ==
    hashed_password.digest = <<hashed_password.salt, plain_password>>

InvalidCredentials ==
    [ok |-> FALSE, status |-> 401,
     detail |-> "Invalid authentication credentials", sub |-> NoSub]

\* a verify_token that does not check the expiry
verify_token_no_expiry(token, clock) ==
    IF ~token.wellformed \/ ~token.sig_ok \/ token.sub = NoSub
    THEN InvalidCredentials
    ELSE [ok |-> TRUE, status |-> 200, detail |-> "", sub |-> token.sub]

\* jwt.decode raises JWTError for a malformed token, a bad signature or an
\* expiry in the past (exp < now, now in whole seconds); a payload without
\* "sub" is refused too
verify_token(token, clock) ==
    IF ~token.wellformed \/ ~token.sig_ok \/ token.exp < numeric_date(clock)
    THEN InvalidCredentials
    ELSE IF token.sub = NoSub
         THEN InvalidCredentials
         ELSE [ok |-> TRUE, status |-> 200, detail |-> "", sub |-> token.sub]

(***************************************************************************)
(* app/crud/users.py: lookups                                              *)
(***************************************************************************)
NoUser ==
    [id |-> 0, username |-> "", email |-> "", is_active |-> FALSE, created_at |-> 0]

\* a UserResponse that also carries the stored hash
UserResponse_with_hash(row) ==
    [id |-> row.id, username |-> row.username, email |-> row.email,
     is_active |-> row.is_active, created_at |-> row.created_at,
     hashed_password |-> row.hashed_password]

UserResponse(row) ==
    [id |-> row.id, username |-> row.username, email |-> row.email,
     is_active |-> row.is_active, created_at |-> row.created_at]

\* a lookup by username without the is_active condition
get_user_by_username_any(us, username) == {u \in us : u.username = username}

\* SELECT * FROM users WHERE username = $1 AND is_active = TRUE; fetchrow.
\* The set of rows the statement can return (at most one when usernames are
\* unique); empty when fetchrow gives None.
get_user_by_username(us, username) ==
    {u \in us : u.username = username /\ u.is_active}

\* SELECT ... FROM users WHERE id = $1 AND is_active = TRUE
get_user_by_id(us, user_id) ==
    {UserResponse(u) : u \in {x \in us : x.id = user_id /\ x.is_active}}

(***************************************************************************)
(* app/crud/users.py: create_user and authenticate_user                    *)
(***************************************************************************)
UserOk(user, us, seq) ==
    [err |-> "none", field |-> "", user |-> user, users |-> us, seq |-> seq]
UserErr(e, field, us, seq) ==
    [err |-> e, field |-> field, user |-> NoUser, users |-> us, seq |-> seq]

\* SELECT username, email FROM users WHERE username = $1 OR email = $2: the
\* rows that match; fetchrow hands over one of them, whichever comes first
select_existing_user(us, username, email) ==
    {u \in us : u.username = username \/ u.email = email}

\* a users table without unique constraints
no_unique_constraint(us, username, email) == FALSE

\* users(username unique, email unique): the INSERT is refused when a row
\* holds the username or the email
unique_violation(us, username, email) ==
    \E u \in us : u.username = username \/ u.email = email

\* INSERT INTO users (username, email, hashed_password) ... RETURNING: id from
\* the serial (used up by a refused insert too), is_active and created_at
\* from their defaults
insert_user(us, seq, clock, username, email, hashed_password) ==
    IF unique_violation(us, username, email)
    THEN UserErr("DatabaseError", "", us, seq + 1)
    ELSE LET row == [id |-> seq + 1, username |-> username, email |-> email,
                     hashed_password |-> hashed_password, is_active |-> TRUE,
                     created_at |-> clock]
         IN  UserOk(UserResponse(row), us \cup {row}, seq + 1)

\* the branch of create_user on the row fetchrow handed over
existing_user_error(existing_user, user, us, seq) ==
    IF existing_user.username = user.username
    THEN UserErr("UserAlreadyExistsError", "username", us, seq)
    ELSE UserErr("UserAlreadyExistsError", "email", us, seq)

\* create_user(user), the salt being the one pwd_context.hash draws: the set
\* of its outcomes
create_user(us, seq, clock, user, salt) ==
    LET existing == select_existing_user(us, user.username, user.email)
    IN  IF existing # {}
        THEN {existing_user_error(e, user, us, seq) : e \in existing}
        ELSE {insert_user(us, seq, clock, user.username, user.email,
                          get_password_hash(user.password, salt))}

Absent == [ok |-> FALSE, user |-> NoUser]

\* an authenticate_user that does not check the password
authenticate_user_any_password(us, username, password) ==
    LET found == get_user_by_username(us, username)
    IN  IF found = {} THEN {Absent}
        ELSE {[ok |-> TRUE, user |-> UserResponse(u)] : u \in found}

\* authenticate_user(username, password): the set of its outcomes
authenticate_user(us, username, password) ==
    LET found == get_user_by_username(us, username)
    IN  IF found = {} THEN {Absent}
        ELSE {IF verify_password(password, u.hashed_password)
              THEN [ok |-> TRUE, user |-> UserResponse(u)]
              ELSE Absent : u \in found}

(***************************************************************************)
(* app/core/auth.py: the dependencies of every protected route             *)
(***************************************************************************)
AuthError(status, detail) ==
    [ok |-> FALSE, status |-> status, detail |-> detail, user |-> NoUser]

\* The outcomes of get_current_user(credentials)
get_current_user(us, token, clock) ==
    LET payload == verify_token(token, clock)
    IN  IF ~payload.ok
        THEN {AuthError(payload.status, payload.detail)}
        ELSE LET found == get_user_by_username(us, payload.sub)
             IN  IF found = {}
                 THEN {AuthError(401, "User not found")}
                 ELSE {[ok |-> TRUE, status |-> 200, detail |-> "",
                        user |-> UserResponse(u)] : u \in found}

\* get_active_user(current_user = Depends(get_current_user))
get_active_user(us, token, clock) ==
    {IF c.ok /\ ~c.user.is_active THEN AuthError(400, "Inactive user") ELSE c :
        c \in get_current_user(us, token, clock)}

(***************************************************************************)
(* app/routes/auth.py                                                      *)
(***************************************************************************)
NoTokenOut == [access_token |-> Garbage, token_type |-> ""]

\* POST /auth/register: 201 with the user, 409 on UserAlreadyExistsError;
\* a DatabaseError goes to the handler of app/exceptions/handlers.py (500)
register_user(us, seq, clock, user, salt) ==
    {[status |-> CASE r.err = "none" -> 201
                   [] r.err = "UserAlreadyExistsError" -> 409
                   [] OTHER -> 500,
      detail |-> CASE r.err = "none" -> ""
                   [] r.err = "UserAlreadyExistsError" ->
                          IF r.field = "username"
                          THEN "User with this username already exists"
                          ELSE "User with this email already exists"
                   [] OTHER -> "An internal database error occurred",
      out |-> r.user, users |-> r.users, seq |-> r.seq] :
        r \in create_user(us, seq, clock, user, salt)}

\* POST /auth/login
login_user(us, user_credentials, clock) ==
    {IF ~a.ok
     THEN [status |-> 401, detail |-> "Incorrect username or password",
           out |-> NoTokenOut]
     ELSE [status |-> 200, detail |-> "",
           out |-> [access_token |->
                        create_access_token(a.user.username,
                            Some(minutes(ACCESS_TOKEN_EXPIRE_MINUTES)), clock),
                    token_type |-> "bearer"]] :
        a \in authenticate_user(us, user_credentials.username,
                                user_credentials.password)}

\* GET /auth/me
get_current_user_info(current_user) == current_user

(***************************************************************************)
(* app/crud/todos.py                                                       *)
(***************************************************************************)
NoRow ==
    [id |-> 0, title |-> <<>>, description |-> None, completed |-> FALSE,
     created_at |-> 0, user_id |-> 0]

CrudOk(row, tds, seq) == [err |-> "none", row |-> row, todos |-> tds, seq |-> seq]
CrudErr(e, tds, seq) == [err |-> e, row |-> NoRow, todos |-> tds, seq |-> seq]

\* the SELECT of get_todo_or_raise without its user_id condition
select_todo_any_owner(tds, todo_id, user_id) ==
    {t \in tds : t.id = todo_id}

\* SELECT * FROM todos WHERE id = $1 AND user_id = $2 (every caller passes a
\* user_id); id is the primary key, so at most one row matches
select_todo(tds, todo_id, user_id) ==
    {t \in tds : t.id = todo_id /\ t.user_id = user_id}

get_todo_or_raise(tds, todo_id, user_id) ==
    LET rows == select_todo(tds, todo_id, user_id)
    IN  IF rows = {}
        THEN [err |-> "TodoNotFoundError", row |-> NoRow]
        ELSE [err |-> "none", row |-> CHOOSE t \in rows : TRUE]

get_todo(tds, seq, todo_id, user_id) ==
    LET r == get_todo_or_raise(tds, todo_id, user_id)
    IN  IF r.err = "none" THEN CrudOk(r.row, tds, seq) ELSE CrudErr(r.err, tds, seq)

\* INSERT INTO todos (title, description, user_id) ... RETURNING: id from the
\* serial, completed DEFAULT FALSE, created_at DEFAULT CURRENT_TIMESTAMP
insert_todo(seq, clock, title, description, user_id) ==
    [id |-> seq + 1, title |-> title, description |-> description,
     completed |-> FALSE, created_at |-> clock, user_id |-> user_id]

create_todo(tds, seq, clock, todo, user_id) ==
    LET row == insert_todo(seq, clock, todo.title, todo.description, user_id)
    IN  CrudOk(row, tds \cup {row}, seq + 1)

\* UPDATE todos SET ... WHERE id = $4 AND user_id = $5 RETURNING ...: the table
\* after the statement and the rows it returns; set(t) is the updated row
update_where(tds, todo_id, user_id, set(_)) ==
    LET hit == select_todo(tds, todo_id, user_id)
    IN  [todos |-> (tds \ hit) \cup {set(t) : t \in hit},
         rows |-> {set(t) : t \in hit}]

\* TodoResponse(**updated_row): a TypeError when the UPDATE returned no row,
\* which the except clause turns into DatabaseError
returning_row(u, seq) ==
    IF u.rows = {}
    THEN CrudErr("DatabaseError", u.todos, seq)
    ELSE CrudOk(CHOOSE t \in u.rows : TRUE, u.todos, seq)

\* a SET list that keeps the stored description when the body has none
put_row_keep(t, data) ==
    [t EXCEPT !.title = data.title,
              !.description = IF data.description.some THEN data.description ELSE @,
              !.completed = data.completed]

put_row(t, data) ==
    [t EXCEPT !.title = data.title, !.description = data.description,
              !.completed = data.completed]

replace_todo(tds, seq, todo_id, data, user_id) ==
    LET r == get_todo_or_raise(tds, todo_id, user_id)
    IN  IF r.err # "none"
        THEN CrudErr(r.err, tds, seq)
        ELSE returning_row(
                 update_where(tds, todo_id, user_id, LAMBDA t : put_row(t, data)),
                 seq)

\* a SET list that writes every field, given or not
patch_row_overwrite(t, patch) ==
    [t EXCEPT !.title = patch.title.val, !.description = patch.description,
              !.completed = patch.completed.some /\ patch.completed.val]

\* the SET list update_todo builds: only the fields that are not None
\* a SET list that negates the stored completed, whatever the patch holds
patch_row_negate_stored(t, patch) == [t EXCEPT !.completed = ~@]

patch_row(t, patch) ==
    [t EXCEPT
        !.title = IF patch.title.some THEN patch.title.val ELSE @,
        !.description = IF patch.description.some THEN patch.description ELSE @,
        !.completed = IF patch.completed.some THEN patch.completed.val ELSE @]

update_todo(tds, seq, todo_id, patch, user_id) ==
    LET r == get_todo_or_raise(tds, todo_id, user_id)
    IN  IF r.err # "none"
        THEN CrudErr(r.err, tds, seq)
        ELSE IF ~patch.title.some /\ ~patch.description.some /\ ~patch.completed.some
             THEN CrudOk(r.row, tds, seq)
             ELSE returning_row(
                      update_where(tds, todo_id, user_id,
                                   LAMBDA t : patch_row(t, patch)),
                      seq)

\* a delete that answers success and leaves the row in place
delete_todo_keep(tds, seq, todo_id, user_id) ==
    LET r == get_todo_or_raise(tds, todo_id, user_id)
    IN  IF r.err # "none"
        THEN CrudErr(r.err, tds, seq)
        ELSE CrudOk([NoRow EXCEPT !.id = todo_id], tds, seq)

\* DELETE FROM todos WHERE id = $1 AND user_id = $2; "DELETE 0" when no row
\* matched.  The response carries the id only.
delete_todo(tds, seq, todo_id, user_id) ==
    LET r == get_todo_or_raise(tds, todo_id, user_id)
        hit == select_todo(tds, todo_id, user_id)
    IN  IF r.err # "none"
        THEN CrudErr(r.err, tds, seq)
        ELSE IF hit = {}
             THEN CrudErr("TodoNotFoundError", tds, seq)
             ELSE CrudOk([NoRow EXCEPT !.id = todo_id], tds \ hit, seq)

\* s LIKE p: % matches any run of characters, _ any one character (the
\* searches of this model carry no escape character)
RECURSIVE Like(_, _)
Like(s, p) ==
    IF p = <<>> THEN s = <<>>
    ELSE IF Head(p) = "%"
         THEN Like(s, Tail(p)) \/ (s # <<>> /\ Like(Tail(s), p))
         ELSE /\ s # <<>>
              /\ (Head(p) = "_" \/ Head(s) = Head(p))
              /\ Like(Tail(s), Tail(p))

\* s ILIKE p: LIKE without regard to case
ILike(s, p) == Like(Lower(s), Lower(p))

\* the where clause of list_todos: user_id = $1, then completed = $n when a
\* filter is given, then (title ILIKE $n OR description ILIKE $n) with the
\* pattern %search% when a search is given; a NULL description matches nothing
list_where(t, user_id, completed, search) ==
    /\ t.user_id = user_id
    /\ completed.some => t.completed = completed.val
    /\ search.some =>
          LET pattern == <<"%">> \o search.val \o <<"%">>
          IN  \/ ILike(t.title, pattern)
              \/ t.description.some /\ ILike(t.description.val, pattern)

\* a count query that forgets the conditions
count_todos_unfiltered(tds, user_id, completed, search) ==
    Cardinality({t \in tds : t.user_id = user_id})

\* SELECT COUNT(*) FROM todos WHERE ... (or 0)
count_todos(tds, user_id, completed, search) ==
    Cardinality({t \in tds : list_where(t, user_id, completed, search)})

\* an offset that forgets that pages start at 1
page_offset_from_zero(page, page_size) == page * page_size

page_offset(page, page_size) == (page - 1) * page_size

total_pages_of(total_count, page_size) ==
    (total_count + page_size - 1) \div page_size

\* the orders ORDER BY created_at DESC may produce: rows of equal created_at
\* come in an order the database chooses, query by query
OrderByCreatedAtDesc(rows) ==
    LET n == Cardinality(rows)
    IN  {ord \in [1..n -> rows] :
            /\ \A i, j \in 1..n : i # j => ord[i] # ord[j]
            /\ \A i, j \in 1..n : i < j => ord[i].created_at >= ord[j].created_at}

\* LIMIT lim OFFSET off
LimitOffset(ord, lim, off) ==
    IF off >= Len(ord) THEN <<>>
    ELSE SubSeq(ord, off + 1, IF off + lim < Len(ord) THEN off + lim ELSE Len(ord))

Pagination(rows, total_count, page, page_size, total_pages) ==
    [todos |-> rows, total_count |-> total_count, page |-> page,
     page_size |-> page_size, total_pages |-> total_pages]

\* list_todos: the count query, then the page query; the set holds one
\* result for each order the page query may produce
list_todos(tds, seq, user_id, completed, search, page, page_size) ==
    LET total_count == count_todos(tds, user_id, completed, search)
        offset == page_offset(page, page_size)
        total_pages == total_pages_of(total_count, page_size)
        matching == {t \in tds : list_where(t, user_id, completed, search)}
    IN  {CrudOk(Pagination(LimitOffset(ord, page_size, offset), total_count,
                           page, page_size, total_pages), tds, seq) :
            ord \in OrderByCreatedAtDesc(matching)}

(***************************************************************************)
(* app/routes/todos.py and app/exceptions/handlers.py                      *)
(***************************************************************************)
\* What a route hands to the repository: the crud result and the user id the
\* call was scoped to
Scoped(user_id, r) == [scope |-> user_id, r |-> r]

route_get_todo(tds, seq, todo_id, current_user) ==
    Scoped(current_user.id, get_todo(tds, seq, todo_id, current_user.id))

route_create_todo(tds, seq, clock, todo, current_user) ==
    Scoped(current_user.id, create_todo(tds, seq, clock, todo, current_user.id))

route_replace_todo(tds, seq, todo_id, todo_put, current_user) ==
    Scoped(current_user.id,
           replace_todo(tds, seq, todo_id, todo_put, current_user.id))

route_update_todo(tds, seq, todo_id, todo_update, current_user) ==
    Scoped(current_user.id,
           update_todo(tds, seq, todo_id, todo_update, current_user.id))

route_delete_todo(tds, seq, todo_id, current_user) ==
    Scoped(current_user.id, delete_todo(tds, seq, todo_id, current_user.id))

\* a toggle that sets completed instead of negating it
toggle_todo_completion_set(tds, seq, todo_id, current_user) ==
    LET current_todo == get_todo(tds, seq, todo_id, current_user.id)
    IN  Scoped(current_user.id,
               IF current_todo.err # "none"
               THEN current_todo
               ELSE update_todo(tds, seq, todo_id, TodoPatch(None, None, Some(TRUE)),
                                current_user.id))

\* toggle_todo_completion: get_todo, then update_todo with the negation
toggle_todo_completion(tds, seq, todo_id, current_user) ==
    LET current_todo == get_todo(tds, seq, todo_id, current_user.id)
    IN  Scoped(current_user.id,
               IF current_todo.err # "none"
               THEN current_todo
               ELSE update_todo(tds, seq, todo_id,
                                TodoPatch(None, None,
                                          Some(~current_todo.row.completed)),
                                current_user.id))

\* GET /todos: every result list_todos may give, scoped to the caller
get_todos(tds, seq, completed, search, page, page_size, current_user) ==
    {Scoped(current_user.id, r) :
        r \in list_todos(tds, seq, current_user.id, completed, search,
                         page, page_size)}

\* round(x, 2) of x = num / den * 100, in hundredths: the nearest hundredth,
\* a tie going to the even one
round2(num, den) ==
    LET q == (10000 * num) \div den
        r == (10000 * num) % den
    IN  IF 2 * r > den \/ (2 * r = den /\ q % 2 = 1) THEN q + 1 ELSE q

\* the three counts of the SELECT, over every row of the table
stats_row_all_users(tds, user_id) ==
    [total_todos |-> Cardinality(tds),
     completed_todos |-> Cardinality({t \in tds : t.completed}),
     pending_todos |-> Cardinality({t \in tds : ~t.completed})]

\* SELECT COUNT(*), COUNT(CASE WHEN completed ...) FROM todos WHERE user_id = $1
stats_row(tds, user_id) ==
    LET mine == {t \in tds : t.user_id = user_id}
    IN  [total_todos |-> Cardinality(mine),
         completed_todos |-> Cardinality({t \in mine : t.completed}),
         pending_todos |-> Cardinality({t \in mine : ~t.completed})]

\* GET /todos/stats; completion_rate is kept in hundredths of a percent
get_todo_stats(tds, current_user) ==
    LET stats == stats_row(tds, current_user.id)
        total == stats.total_todos
        completed == stats.completed_todos
        pending == stats.pending_todos
    IN  [total_todos |-> total,
         completed_todos |-> completed,
         pending_todos |-> pending,
         completion_rate |-> IF total > 0 THEN round2(completed, total) ELSE 0]

\* register_exception_handlers: TodoNotFoundError -> 404, DatabaseError -> 500
\* with the generic message; ok is the route's success status
http_status(err, ok) ==
    CASE err = "none" -> ok
      [] err = "TodoNotFoundError" -> 404
      [] OTHER -> 500

http_detail(err) ==
    CASE err = "none" -> ""
      [] err = "TodoNotFoundError" -> "TODO Not Found"
      [] OTHER -> "An internal database error occurred"

(***************************************************************************)
(* Requests.  One action serves one request: the dependency get_active_user *)
(* first, then the validation of the body, then the route.  `last` records  *)
(* the request and its response.                                            *)
(***************************************************************************)
NoInp == [title |-> None, description |-> None, completed |-> None]

\* no request served yet
Idle ==
    [op |-> "none", tok |-> Garbage, uid |-> 0, scope |-> 0, todo_id |-> 0,
     inp |-> NoInp, status |-> 0, detail |-> "", out |-> NoRow]

\* the request was refused by get_active_user: the route did not run
Refused(op, tok, a) ==
    /\ last' = [op |-> op, tok |-> tok, uid |-> 0, scope |-> 0, todo_id |-> 0,
                inp |-> NoInp, status |-> a.status, detail |-> a.detail,
                out |-> NoRow]
    /\ UNCHANGED <<users, userSeq, todos, todoSeq, now>>

\* the body failed validation (422): the route did not run
Unprocessable(op, tok, a, todo_id, inp) ==
    /\ last' = [op |-> op, tok |-> tok, uid |-> a.user.id, scope |-> 0,
                todo_id |-> todo_id, inp |-> inp, status |-> 422,
                detail |-> "validation error", out |-> NoRow]
    /\ UNCHANGED <<users, userSeq, todos, todoSeq, now>>

\* the route ran and returned (or raised) sr
Served(op, tok, a, todo_id, inp, sr, ok) ==
    /\ last' = [op |-> op, tok |-> tok, uid |-> a.user.id, scope |-> sr.scope,
                todo_id |-> todo_id, inp |-> inp,
                status |-> http_status(sr.r.err, ok),
                detail |-> http_detail(sr.r.err), out |-> sr.r.row]
    /\ todos' = sr.r.todos
    /\ todoSeq' = sr.r.seq
    /\ UNCHANGED <<users, userSeq, now>>

\* bound on the rows ever inserted into todos
MaxTodos == 2

\* GET /todos/{todo_id}
ReqGet(toks, ids) ==
    \E tok \in toks : \E a \in get_active_user(users, tok, now) :
        IF ~a.ok
        THEN Refused("get", tok, a)
        ELSE \E id \in ids :
                Served("get", tok, a, id, NoInp,
                       route_get_todo(todos, todoSeq, id, a.user), 200)

\* POST /todos with a body of bodies: [title, description]; cap bounds the
\* rows ever inserted
ReqCreate(toks, bodies, cap) ==
    \E tok \in toks : \E a \in get_active_user(users, tok, now) :
        IF ~a.ok
        THEN Refused("create", tok, a)
        ELSE \E b \in bodies :
                LET inp == [title |-> Some(b.title), description |-> b.description,
                            completed |-> None]
                    todo == TodoCreate(b.title, b.description)
                IN  IF ~todo.ok
                    THEN Unprocessable("create", tok, a, 0, inp)
                    ELSE /\ todoSeq < cap
                         /\ Served("create", tok, a, 0, inp,
                                   route_create_todo(todos, todoSeq, now, todo,
                                                     a.user), 201)

\* PUT /todos/{todo_id} with a body of bodies: [title, description, completed],
\* description and completed Optional
ReqReplace(toks, ids, bodies) ==
    \E tok \in toks : \E a \in get_active_user(users, tok, now) :
        IF ~a.ok
        THEN Refused("replace", tok, a)
        ELSE \E id \in ids, b \in bodies :
                LET inp == [title |-> Some(b.title), description |-> b.description,
                            completed |-> b.completed]
                    data == TodoPut(b.title, b.description, b.completed)
                IN  IF ~data.ok
                    THEN Unprocessable("replace", tok, a, id, inp)
                    ELSE Served("replace", tok, a, id, inp,
                                route_replace_todo(todos, todoSeq, id, data,
                                                   a.user), 200)

\* PATCH /todos/{todo_id} with a body of bodies: [title, description,
\* completed], each Optional
ReqUpdate(toks, ids, bodies) ==
    \E tok \in toks : \E a \in get_active_user(users, tok, now) :
        IF ~a.ok
        THEN Refused("update", tok, a)
        ELSE \E id \in ids, b \in bodies :
                LET patch == TodoPatch(b.title, b.description, b.completed)
                IN  IF ~patch.ok
                    THEN Unprocessable("update", tok, a, id, b)
                    ELSE Served("update", tok, a, id, b,
                                route_update_todo(todos, todoSeq, id, patch,
                                                  a.user), 200)

\* DELETE /todos/{todo_id}
ReqDelete(toks, ids) ==
    \E tok \in toks : \E a \in get_active_user(users, tok, now) :
        IF ~a.ok
        THEN Refused("delete", tok, a)
        ELSE \E id \in ids :
                Served("delete", tok, a, id, NoInp,
                       route_delete_todo(todos, todoSeq, id, a.user), 200)

\* PATCH /todos/{todo_id}/toggle
ReqToggle(toks, ids) ==
    \E tok \in toks : \E a \in get_active_user(users, tok, now) :
        IF ~a.ok
        THEN Refused("toggle", tok, a)
        ELSE \E id \in ids :
                Served("toggle", tok, a, id, NoInp,
                       toggle_todo_completion(todos, todoSeq, id, a.user), 200)

\* the query parameters of GET /todos: page >= 1, 1 <= page_size <= 100
ListQuery(completed, search, page, page_size) ==
    [ok |-> page >= 1 /\ page_size >= 1 /\ page_size <= 100,
     val |-> [completed |-> completed, search |-> search, page |-> page,
              page_size |-> page_size]]

\* GET /todos
ReqList(toks, completeds, searches, pages, sizes) ==
    \E tok \in toks : \E a \in get_active_user(users, tok, now) :
        IF ~a.ok
        THEN Refused("list", tok, a)
        ELSE \E completed \in completeds, search \in searches,
                page \in pages, page_size \in sizes :
                LET q == ListQuery(completed, search, page, page_size)
                IN  IF ~q.ok
                    THEN Unprocessable("list", tok, a, 0, q.val)
                    ELSE \E sr \in get_todos(todos, todoSeq, completed, search,
                                             page, page_size, a.user) :
                            Served("list", tok, a, 0, q.val, sr, 200)

\* GET /todos/stats
ReqStats(toks) ==
    \E tok \in toks : \E a \in get_active_user(users, tok, now) :
        IF ~a.ok
        THEN Refused("stats", tok, a)
        ELSE /\ last' = [op |-> "stats", tok |-> tok, uid |-> a.user.id,
                         scope |-> a.user.id, todo_id |-> 0, inp |-> NoInp,
                         status |-> 200, detail |-> "",
                         out |-> get_todo_stats(todos, a.user)]
             /\ UNCHANGED <<users, userSeq, todos, todoSeq, now>>

(***************************************************************************)
(* Failures of the backing store.  The store can fail where a request      *)
(* acquires a connection (at = "acquire") or runs a statement (at =        *)
(* "query"), in the dependency get_active_user (stage = "auth") or in the  *)
(* route (stage = "route").                                                *)
(***************************************************************************)
HttpOps ==
    {"list", "get", "create", "replace", "update", "delete", "toggle", "stats",
     "register", "login"}

\* register and login take no token
OpenOps == {"register", "login"}

Faults == [stage : {"auth", "route"}, at : {"acquire", "query"}]

\* is the failing statement inside a try ... except Exception that raises
\* DatabaseError?  `async with pool.acquire()` stands before the try in every
\* function; get_todo_stats has no try at all
in_try(op, fault) ==
    CASE fault.at = "acquire" -> FALSE
      [] fault.stage = "auth" -> TRUE
      [] op = "stats" -> FALSE
      [] OTHER -> TRUE

\* the exception that leaves the route when the store fails
raised_on_failure(op, fault) ==
    IF in_try(op, fault) THEN "DatabaseError" ELSE "Exception"

\* the exception handlers: DatabaseError has one; any other exception has
\* none and gets the server's own 500
exception_response(err) ==
    IF err = "DatabaseError"
    THEN [status |-> 500, detail |-> "An internal database error occurred"]
    ELSE [status |-> 500, detail |-> "Internal Server Error"]

\* a request of ops during which the store fails: the statement that fails
\* changes nothing, and no later statement runs
ReqFailing(ops, toks) ==
    \E op \in ops, fault \in Faults :
        LET resp == exception_response(raised_on_failure(op, fault))
        IN  /\ IF op \in OpenOps
               THEN /\ fault.stage = "route"
                    /\ last' = [op |-> op, tok |-> Garbage, uid |-> 0, scope |-> 0,
                                todo_id |-> 0, inp |-> NoInp,
                                status |-> resp.status, detail |-> resp.detail,
                                out |-> NoRow, fault |-> fault]
               ELSE \E tok \in toks :
                       /\ verify_token(tok, now).ok
                       /\ \E uid \in IF fault.stage = "auth"
                                     THEN {0}
                                     ELSE {a.user.id :
                                             a \in {c \in get_active_user(users, tok, now) : c.ok}} :
                              last' = [op |-> op, tok |-> tok, uid |-> uid,
                                       scope |-> 0, todo_id |-> 0, inp |-> NoInp,
                                       status |-> resp.status,
                                       detail |-> resp.detail,
                                       out |-> NoRow, fault |-> fault]
            /\ UNCHANGED <<users, userSeq, todos, todoSeq, now>>

\* bound on the ticks the clock advances
MaxTicks == 1

\* the clock advances, to max at most
Tick(max) ==
    /\ now < max
    /\ now' = now + 1
    /\ UNCHANGED <<users, userSeq, todos, todoSeq, last>>

\* a request to a route without authentication was answered
Answered(op, inp, resp) ==
    last' = [op |-> op, tok |-> Garbage, uid |-> 0, scope |-> 0, todo_id |-> 0,
             inp |-> inp, status |-> resp.status, detail |-> resp.detail,
             out |-> resp.out]

\* POST /auth/register with a UserCreate body
ReqRegister(usernames, emails, passwords, salts) ==
    \E username \in usernames, email \in emails, password \in passwords,
       salt \in salts :
        LET user == [username |-> username, email |-> email, password |-> password]
        IN  \E resp \in register_user(users, userSeq, now, user, salt) :
                /\ Answered("register", user, resp)
                /\ users' = resp.users
                /\ userSeq' = resp.seq
                /\ UNCHANGED <<todos, todoSeq, now>>

\* POST /auth/login with a UserLogin body
ReqLogin(usernames, passwords) ==
    \E username \in usernames, password \in passwords :
        LET user_credentials == [username |-> username, password |-> password]
        IN  \E resp \in login_user(users, user_credentials, now) :
                /\ Answered("login", user_credentials, resp)
                /\ UNCHANGED <<users, userSeq, todos, todoSeq, now>>

\* GET /auth/me
ReqMe(toks) ==
    \E tok \in toks : \E a \in get_active_user(users, tok, now) :
        IF ~a.ok
        THEN Refused("me", tok, a)
        ELSE /\ last' = [op |-> "me", tok |-> tok, uid |-> a.user.id, scope |-> 0,
                         todo_id |-> 0, inp |-> NoInp, status |-> 200,
                         detail |-> "", out |-> get_current_user_info(a.user)]
             /\ UNCHANGED <<users, userSeq, todos, todoSeq, now>>

\* An operator of the database clears a user's active flag (no route does)
Deactivate ==
    \E u \in users :
        /\ u.is_active
        /\ users' = (users \ {u}) \cup {[u EXCEPT !.is_active = FALSE]}
        /\ last' = [Idle EXCEPT !.op = "deactivate", !.todo_id = u.id]
        /\ UNCHANGED <<userSeq, todos, todoSeq, now>>

(***************************************************************************)
(* Spec: the todo routes, one request at a time, for three registered      *)
(* users (carol deactivated) and the bearer tokens a client can present.   *)
(***************************************************************************)
Hash1 == get_password_hash("pw1", "s1")

UserRow(id, username, email, active) ==
    [id |-> id, username |-> username, email |-> email,
     hashed_password |-> Hash1, is_active |-> active, created_at |-> 0]

ThreeUsers ==
    {UserRow(1, "alice", "a@x", TRUE), UserRow(2, "bob", "b@x", TRUE),
     UserRow(3, "carol", "c@x", FALSE)}

\* the clock of Spec stands at one second; a token with exp 0 has expired
GoodTokens == {Token("alice", 1800, TRUE), Token("bob", 1800, TRUE)}
BadTokens ==
    {Garbage, Token("alice", 1800, FALSE), Token("alice", 0, TRUE),
     Token(NoSub, 1800, TRUE), Token("dave", 1800, TRUE),
     Token("carol", 1800, TRUE)}
SpecTokens == GoodTokens \cup BadTokens

TodoIds == 1..(MaxTodos + 1)

TitleA == <<"a">>
DescD == <<"d">>

CreateBody(title, description) == [title |-> title, description |-> description]
Body(title, description, completed) ==
    [title |-> title, description |-> description, completed |-> completed]

SpecCreates == {CreateBody(TitleA, None), CreateBody(TitleA, Some(DescD))}
SpecPuts == {Body(TitleA, None, None), Body(TitleA, Some(DescD), Some(TRUE))}
SpecPatches ==
    {Body(None, None, None), Body(None, None, Some(TRUE)),
     Body(None, Some(DescD), None)}

NoScan == [uid |-> 0, page_size |-> 0, total_pages |-> 0, pages |-> <<>>]

DbInit ==
    /\ users = ThreeUsers
    /\ userSeq = 3
    /\ todos = {}
    /\ todoSeq = 0
    /\ now = TicksPerSecond
    /\ last = Idle
    /\ prev = Idle
    /\ scan = NoScan
    /\ procs = <<>>
    /\ issued = {}
    /\ pool = {}
    /\ migrations = {}
    /\ executed = <<>>

Init == DbInit

Next ==
    \/ ReqCreate(SpecTokens, SpecCreates, MaxTodos) /\ UNCHANGED <<prev, scan, procs, issued, infra>>
    \/ ReqGet(SpecTokens, TodoIds) /\ UNCHANGED <<prev, scan, procs, issued, infra>>
    \/ ReqReplace(SpecTokens, TodoIds, SpecPuts) /\ UNCHANGED <<prev, scan, procs, issued, infra>>
    \/ ReqUpdate(SpecTokens, TodoIds, SpecPatches) /\ UNCHANGED <<prev, scan, procs, issued, infra>>
    \/ ReqDelete(SpecTokens, TodoIds) /\ UNCHANGED <<prev, scan, procs, issued, infra>>
    \/ ReqToggle(SpecTokens, TodoIds) /\ UNCHANGED <<prev, scan, procs, issued, infra>>

Spec == Init /\ [][Next]_vars

(***************************************************************************)
(* C1.  For every todo t owned by user A and every other user B: get,      *)
(* update (PATCH), replace (PUT), delete and toggle issued by B on t's id  *)
(* fail with NotFound exactly as they do for an id that does not exist,    *)
(* and leave every row unchanged.  Stated on each step that serves such a  *)
(* request (the route ran: the caller was resolved and the body valid):    *)
(* when the caller owns no row with the requested id, whether or not       *)
(* another user owns one, the response is the one 404 response and the     *)
(* table is the same before and after.                                     *)
(***************************************************************************)
ByIdOps == {"get", "update", "replace", "delete", "toggle"}

RouteRan(l) == l.op # "none" /\ l.status \notin {400, 401, 422}

IsNotFoundResponse(l) ==
    l.status = 404 /\ l.detail = "TODO Not Found" /\ l.out = NoRow

C1_NonOwnerIsNotFound ==
    [][(/\ last'.op \in ByIdOps
        /\ RouteRan(last')
        /\ ~\E t \in todos : t.id = last'.todo_id /\ t.user_id = last'.uid)
       => (IsNotFoundResponse(last') /\ todos' = todos)]_vars

\* bob's delete of a todo alice owns was answered 404 and the row is there
C1_Witness ==
    /\ last.op = "delete"
    /\ last.status = 404
    /\ \E t \in todos : t.id = last.todo_id /\ t.user_id # last.uid /\ last.uid # 0

(***************************************************************************)
(* C9.  resolveCaller fails with 401 whenever the token has a bad          *)
(* signature, is malformed, is expired, lacks a subject, or its subject    *)
(* names no active user, and then the route does not run and nothing is    *)
(* written.  When it succeeds the resolved user is the user whose username *)
(* is the token's subject, the route hands that user's id to the           *)
(* repository, every row the request inserts, changes or removes is that   *)
(* user's, and a row it returns is that user's.                            *)
(***************************************************************************)
Unresolvable(tok, us, clock) ==
    \/ ~tok.wellformed
    \/ ~tok.sig_ok
    \/ tok.exp < numeric_date(clock)
    \/ tok.sub = NoSub
    \/ ~\E u \in us : u.username = tok.sub /\ u.is_active

C9_ResolveCaller ==
    [][last'.op \in ByIdOps \cup {"create"} =>
        IF Unresolvable(last'.tok, users, now)
        THEN /\ last'.status = 401
             /\ last'.uid = 0 /\ last'.scope = 0
             /\ todos' = todos /\ todoSeq' = todoSeq
        ELSE \E u \in users :
                /\ u.username = last'.tok.sub /\ u.is_active
                /\ last'.status # 401
                /\ last'.uid = u.id
                /\ RouteRan(last') => last'.scope = u.id
                /\ \A t \in (todos' \ todos) \cup (todos \ todos') : t.user_id = u.id
                /\ last'.status \in {200, 201} /\ last'.op # "delete"
                      => last'.out.user_id = u.id]_vars

\* alice's expired token was refused on a delete of a todo she owns
C9_Witness ==
    /\ last.op = "delete"
    /\ last.tok = Token("alice", 0, TRUE)
    /\ last.status = 401
    /\ \E t \in todos : t.user_id = 1

(***************************************************************************)
(* SpecCreate: POST /todos with bodies that exercise the validators, and   *)
(* GET /todos/{id}; prev keeps the request served before the last one.     *)
(***************************************************************************)
CreateBodies ==
    {CreateBody(<<" ", "a", "\t">>, None),
     CreateBody(<<"a">>, Some(<<>>)),
     CreateBody(<<"a", " ", "b">>, Some(<<" ", "\t">>)),
     CreateBody(<<"a">>, Some(<<" ", "d", " ">>)),
     CreateBody(<<"a">>, Some(<<"d", " ", "D">>)),
     CreateBody(<<" ">>, None),
     CreateBody(<<>>, None),
     CreateBody(<<"<", "a", ">">>, None),
     CreateBody(<<"a">>, Some(<<"<", "S", "c", "r", "i", "p", "t">>))}

NextCreate ==
    \/ ReqCreate(GoodTokens, CreateBodies, MaxTodos) /\ prev' = last /\ UNCHANGED <<scan, procs, issued, infra>>
    \/ ReqGet(GoodTokens, TodoIds) /\ prev' = last /\ UNCHANGED <<scan, procs, issued, infra>>

SpecCreate == Init /\ [][NextCreate]_vars

(***************************************************************************)
(* C4.  For every (title, description) that passes validation, create      *)
(* followed by get by the same owner returns the title with leading and    *)
(* trailing whitespace stripped and the description trimmed, a             *)
(* whitespace-only or empty description returned as absent; completed is   *)
(* false and the owner is the creating user.                               *)
(***************************************************************************)
AllWhitespace(s) == \A k \in 1..Len(s) : s[k] \in WS

\* out is raw without its leading and trailing whitespace
IsStripOf(out, raw) ==
    /\ \E i \in 1..(Len(raw) + 1), j \in 0..Len(raw) :
          /\ out = SubSeq(raw, i, j)
          /\ \A k \in 1..(i - 1) : raw[k] \in WS
          /\ \A k \in (j + 1)..Len(raw) : raw[k] \in WS
    /\ out # <<>> => out[1] \notin WS /\ out[Len(out)] \notin WS

IsNormalizedDescriptionOf(out, raw) ==
    IF raw.some /\ ~AllWhitespace(raw.val)
    THEN out.some /\ IsStripOf(out.val, raw.val)
    ELSE out = None

C4_CreateThenGet ==
    (/\ prev.op = "create" /\ prev.status = 201
     /\ last.op = "get" /\ last.uid = prev.uid /\ last.todo_id = prev.out.id)
    => /\ last.status = 200
       /\ last.out.id = prev.out.id
       /\ last.out.title # <<>>
       /\ IsStripOf(last.out.title, prev.inp.title.val)
       /\ IsNormalizedDescriptionOf(last.out.description, prev.inp.description)
       /\ last.out.completed = FALSE
       /\ last.out.user_id = prev.uid

\* a todo created with a padded title and a whitespace-only description was
\* fetched by its owner
C4_Witness ==
    /\ prev.op = "create" /\ prev.status = 201
    /\ prev.inp.title.val = <<"a", " ", "b">>
    /\ prev.inp.description = Some(<<" ", "\t">>)
    /\ last.op = "get" /\ last.uid = prev.uid /\ last.todo_id = prev.out.id
    /\ last.out.description = None


(***************************************************************************)
(* SpecList: alice and bob create todos, toggle them and list them with    *)
(* every combination of filters.  The clock stands still, so every row has *)
(* the same created_at.                                                    *)
(***************************************************************************)
TitleB == <<"B">>
DescB == <<"b">>

ListCreates ==
    {CreateBody(TitleA, None), CreateBody(TitleB, None),
     CreateBody(TitleA, Some(DescB))}

CompletedFilters == {None, Some(TRUE), Some(FALSE)}
Searches == {None, Some(<<"b">>), Some(<<"_">>)}

NextList ==
    \/ ReqCreate(GoodTokens, ListCreates, MaxTodos) /\ UNCHANGED <<prev, scan, procs, issued, infra>>
    \/ ReqToggle(GoodTokens, 1..MaxTodos) /\ UNCHANGED <<prev, scan, procs, issued, infra>>
    \/ ReqList(GoodTokens, CompletedFilters, Searches, {1}, {1, 2})
          /\ UNCHANGED <<prev, scan, procs, issued, infra>>

SpecList == Init /\ [][NextList]_vars

\* the caller's todos that pass the filters given: the completed flag equal
\* to the filter, the search pattern found in the title or the description
MatchingSet(tds, ownerId, completedFilter, searchText) ==
    {t \in tds :
        /\ t.user_id = ownerId
        /\ (completedFilter = None \/ t.completed = completedFilter.val)
        /\ \/ searchText = None
           \/ ILike(t.title, <<"%">> \o searchText.val \o <<"%">>)
           \/ /\ t.description # None
              /\ ILike(t.description.val, <<"%">> \o searchText.val \o <<"%">>)}

\* C2: a served list holds only todos of the caller that pass the filters
\* given, and its total_count is the number of the caller's todos that pass
\* the same filters, whatever other rows the table holds.
C2_ListScopedAndCounted ==
    (last.op = "list" /\ last.status = 200) =>
        LET M == MatchingSet(todos, last.uid, last.inp.completed, last.inp.search)
        IN  /\ \A i \in 1..Len(last.out.todos) : last.out.todos[i] \in M
            /\ last.out.total_count = Cardinality(M)

\* a list filtered on completed counts 1 while the table holds two completed
\* rows, the other one owned by another user
C2_Witness ==
    /\ last.op = "list" /\ last.status = 200
    /\ last.inp.completed = Some(TRUE)
    /\ last.out.total_count = 1
    /\ Len(last.out.todos) = 1
    /\ Cardinality({t \in todos : t.completed}) = 2
    /\ \E t \in todos : t.user_id # last.uid


(***************************************************************************)
(* SpecPage: alice and bob create todos while the clock may or may not     *)
(* advance between two creations, and list them page by page.  scan keeps  *)
(* the pages 1, 2, ... a client fetched one after the other with the same  *)
(* page size and no write in between.                                      *)
(***************************************************************************)
PageCreates == {CreateBody(TitleA, None)}
Pages == 0..(MaxTodos + 1)
PageSizes == {1, 2}

\* the scan after the list request recorded in l
ScanTrack(sc, l) ==
    IF l.op = "list" /\ l.status = 200
    THEN IF l.inp.page = 1
         THEN [uid |-> l.uid, page_size |-> l.inp.page_size,
               total_pages |-> l.out.total_pages, pages |-> <<l.out.todos>>]
         ELSE IF /\ sc.uid = l.uid
                 /\ sc.page_size = l.inp.page_size
                 /\ l.inp.page = Len(sc.pages) + 1
              THEN [sc EXCEPT !.pages = Append(@, l.out.todos),
                              !.total_pages = l.out.total_pages]
              ELSE NoScan
    ELSE NoScan

NextPage ==
    \/ ReqCreate(GoodTokens, PageCreates, MaxTodos) /\ scan' = NoScan
          /\ UNCHANGED <<prev, procs, issued, infra>>
    \/ ReqList(GoodTokens, {None}, {None}, Pages, PageSizes) /\ scan' = ScanTrack(scan, last')
          /\ UNCHANGED <<prev, procs, issued, infra>>
    \/ Tick(TicksPerSecond + MaxTicks) /\ UNCHANGED <<prev, scan, procs, issued, infra>>

SpecPage == Init /\ [][NextPage]_vars

\* the orderings of the set M by creation time, newest first
NewestFirst(M) ==
    {ord \in [1..Cardinality(M) -> M] :
        /\ \A t \in M : \E i \in DOMAIN ord : ord[i] = t
        /\ \A i \in DOMAIN ord : \A j \in DOMAIN ord :
              i < j => ord[i].created_at >= ord[j].created_at}

\* items are the positions (page-1)*pageSize+1 .. page*pageSize of ord
IsPageOf(items, ord, page, pageSize) ==
    LET first == (page - 1) * pageSize + 1
        lastPos == IF page * pageSize < Len(ord) THEN page * pageSize ELSE Len(ord)
    IN  /\ Len(items) = (IF lastPos >= first THEN lastPos - first + 1 ELSE 0)
        /\ \A i \in 1..Len(items) : items[i] = ord[first + i - 1]

\* k = ceil(n / d)
IsCeilDiv(k, n, d) == k * d >= n /\ (k - 1) * d < n

\* one served list: total_pages and the page's items
PageIsRight(l, tds) ==
    LET M == MatchingSet(tds, l.uid, l.inp.completed, l.inp.search)
    IN  /\ l.out.total_count = Cardinality(M)
        /\ IsCeilDiv(l.out.total_pages, l.out.total_count, l.inp.page_size)
        /\ \E ord \in NewestFirst(M) :
              IsPageOf(l.out.todos, ord, l.inp.page, l.inp.page_size)

ScanComplete == scan.pages # <<>> /\ Len(scan.pages) = scan.total_pages

\* the number of times t occurs in the pages of the scan
Occurrences(t) ==
    Cardinality({<<k, i>> \in (1..Len(scan.pages)) \X (1..MaxTodos + 1) :
                    i <= Len(scan.pages[k]) /\ scan.pages[k][i] = t})

EveryMatchingTodoOnce ==
    \A t \in MatchingSet(todos, scan.uid, None, None) : Occurrences(t) = 1

DistinctCreationTimes(M) ==
    \A t \in M : \A u \in M : t # u => t.created_at # u.created_at

\* C3 (amended): a served list has total_pages = ceil(total_count / pageSize)
\* and holds the items at positions (page-1)*pageSize+1 .. page*pageSize of
\* an ordering of the matching set by creation time, newest first; pages
\* 1..total_pages fetched with no write in between hold every matching todo
\* exactly once when the matching todos' creation times differ pairwise.
C3_Pagination ==
    /\ (last.op = "list" /\ last.status = 200) => PageIsRight(last, todos)
    /\ (ScanComplete /\ DistinctCreationTimes(MatchingSet(todos, scan.uid, None, None)))
          => EveryMatchingTodoOnce

\* two pages of one item each, fetched in a row, over two todos created at
\* different times
C3_Witness ==
    /\ ScanComplete
    /\ Len(scan.pages) = 2
    /\ last.op = "list" /\ last.status = 200 /\ last.inp.page = 2
    /\ Cardinality(MatchingSet(todos, scan.uid, None, None)) = 2
    /\ DistinctCreationTimes(MatchingSet(todos, scan.uid, None, None))

\* C3 (as stated): the same, with pages 1..total_pages holding every matching
\* todo exactly once whatever the creation times
C3_AsStated ==
    /\ (last.op = "list" /\ last.status = 200) => PageIsRight(last, todos)
    /\ ScanComplete => EveryMatchingTodoOnce


(***************************************************************************)
(* SpecAuth: registrations, logins and GET /auth/me, one request at a      *)
(* time, while accounts may be deactivated.  issued holds the tokens the   *)
(* logins handed out; the protected routes are called with those.          *)
(***************************************************************************)
IssuedToken(token, t0, ttl) == [token |-> token, t0 |-> t0, ttl |-> ttl]

\* issued after the login recorded in l
IssuedAfter(l) ==
    IF l.op = "login" /\ l.status = 200
    THEN issued \cup {IssuedToken(l.out.access_token, now,
                                  Some(minutes(ACCESS_TOKEN_EXPIRE_MINUTES)))}
    ELSE issued

Presented == {r.token : r \in issued} \cup {Garbage}

RegUsernames == {"alice", "bob", "dave"}
RegEmails == {"a@x", "b@x", "d@x"}
Passwords == {"pw1", "pw2"}
LoginUsernames == {"alice", "carol", "dave", "zed"}

NextAuth ==
    \/ ReqRegister(RegUsernames, RegEmails, Passwords, {"s2"})
          /\ UNCHANGED <<prev, scan, procs, issued, infra>>
    \/ ReqLogin(LoginUsernames, Passwords) /\ issued' = IssuedAfter(last')
          /\ UNCHANGED <<prev, scan, procs, infra>>
    \/ ReqMe(Presented) /\ UNCHANGED <<prev, scan, procs, issued, infra>>
    \/ ReqGet(Presented, {1}) /\ UNCHANGED <<prev, scan, procs, issued, infra>>
    \/ Deactivate /\ UNCHANGED <<prev, scan, procs, issued, infra>>

SpecAuth == Init /\ [][NextAuth]_vars


UsernameTaken(us, username) == \E u \in us : u.username = username
EmailTaken(us, email) == \E u \in us : u.email = email

UsernameExists == "User with this username already exists"
EmailExists == "User with this email already exists"

\* C5 (what holds): a registration whose username or email is taken is
\* answered 409 naming a field that did collide, and adds no row; a taken
\* username with a free email is reported as "username", a taken email with a
\* free username as "email".
C5_Collisions ==
    [][last'.op = "register" =>
        LET u == UsernameTaken(users, last'.inp.username)
            e == EmailTaken(users, last'.inp.email)
        IN  /\ (u \/ e) => /\ last'.status = 409
                           /\ users' = users
                           /\ last'.detail \in {UsernameExists, EmailExists}
            /\ (u /\ ~e) => last'.detail = UsernameExists
            /\ (e /\ ~u) => last'.detail = EmailExists
            /\ ~(u \/ e) => last'.status = 201]_vars

\* bob's username with alice's email was answered 409 naming the email
C5_Witness ==
    /\ last.op = "register" /\ last.status = 409
    /\ last.inp.username = "bob" /\ last.inp.email = "a@x"
    /\ last.detail = EmailExists

\* C5 (as stated): a taken username is reported as AlreadyExists("username")
\* whether or not the email is taken too, a taken email with a fresh username
\* as AlreadyExists("email"); no failing registration adds a row.
C5_AsStated ==
    [][last'.op = "register" =>
        LET u == UsernameTaken(users, last'.inp.username)
            e == EmailTaken(users, last'.inp.email)
        IN  /\ u => last'.status = 409 /\ last'.detail = UsernameExists
            /\ (e /\ ~u) => last'.status = 409 /\ last'.detail = EmailExists
            /\ last'.status # 201 => users' = users]_vars

FailedLogin ==
    [status |-> 401, detail |-> "Incorrect username or password", out |-> NoTokenOut]

Response(l) == [status |-> l.status, detail |-> l.detail, out |-> l.out]

\* C7: a login is answered with a token only when the username names an
\* active user whose stored hash the password verifies against; every other
\* login gets one and the same 401 response, whether the username is unknown
\* or the password wrong.
C7_Login ==
    [][last'.op = "login" =>
        /\ last'.status = 200 =>
              /\ \E u \in users :
                    /\ u.username = last'.inp.username
                    /\ u.is_active
                    /\ u.hashed_password =
                          get_password_hash(last'.inp.password, u.hashed_password.salt)
              /\ last'.out.access_token.sub = last'.inp.username
        /\ last'.status # 200 => Response(last') = FailedLogin]_vars

\* an unknown username, tried with a password that is alice's, got the 401
C7_Witness ==
    /\ last.op = "login"
    /\ ~UsernameTaken(users, last.inp.username)
    /\ \E u \in users : u.is_active /\ verify_password(last.inp.password, u.hashed_password)
    /\ Response(last) = FailedLogin

\* C8: while a user's active flag is false, the lookups by username and by id
\* find nobody, a login in that name fails even with the right password, a
\* token naming the user is refused with 401, and no request runs as that user.
C8_Deactivated ==
    [][last'.op \in {"register", "login", "me", "get"} =>
        \A u \in users : ~u.is_active =>
            /\ get_user_by_username(users, u.username) = {}
            /\ get_user_by_id(users, u.id) = {}
            /\ (last'.op = "login" /\ last'.inp.username = u.username)
                  => last'.status = 401
            /\ (last'.op \in {"me", "get"} /\ last'.tok.sub = u.username)
                  => last'.status = 401
            /\ last'.uid # u.id /\ last'.scope # u.id]_vars

\* a token a login handed to alice, not yet expired, was refused on
\* GET /auth/me after alice was deactivated
C8_Witness ==
    /\ last.op = "me" /\ last.status = 401
    /\ \E r \in issued : r.token = last.tok /\ r.token.exp >= numeric_date(now)
    /\ \E u \in users : u.username = last.tok.sub /\ ~u.is_active


(***************************************************************************)
(* SpecRegister: registrations in flight together.  Each one runs its      *)
(* SELECT, and later its INSERT, on a connection of its own; the           *)
(* statements of different registrations interleave freely.                *)
(***************************************************************************)
\* bound on the registrations started
MaxProcs == 2

RaceUsernames == {"alice", "dave", "erin"}
RaceEmails == {"d@x", "e@x"}

Proc(pc, user, status, detail) ==
    [pc |-> pc, user |-> user, status |-> status, detail |-> detail]

\* create_user up to the check: the registration answers 409 or goes on
RegBegin(usernames, emails, passwords, cap) ==
    /\ Len(procs) < cap
    /\ \E username \in usernames, email \in emails, password \in passwords :
        LET user == [username |-> username, email |-> email, password |-> password]
            existing == select_existing_user(users, username, email)
        IN  IF existing # {}
            THEN \E e \in existing :
                    LET r == existing_user_error(e, user, users, userSeq)
                    IN  procs' = Append(procs, Proc("done", user, 409, r.field))
            ELSE procs' = Append(procs, Proc("checked", user, 0, ""))
    /\ UNCHANGED <<users, userSeq, todos, todoSeq, now, last>>

\* create_user from the hash on: the INSERT and the answer
RegInsert(salts) ==
    \E i \in 1..Len(procs), salt \in salts :
        /\ procs[i].pc = "checked"
        /\ LET user == procs[i].user
               r == insert_user(users, userSeq, now, user.username, user.email,
                                get_password_hash(user.password, salt))
           IN  /\ users' = r.users
               /\ userSeq' = r.seq
               /\ procs' = [procs EXCEPT ![i] =
                              Proc("done", user, IF r.err = "none" THEN 201 ELSE 500, "")]
        /\ UNCHANGED <<todos, todoSeq, now, last>>

NextRegister ==
    \/ RegBegin(RaceUsernames, RaceEmails, {"pw1"}, MaxProcs)
          /\ UNCHANGED <<prev, scan, issued, infra>>
    \/ RegInsert({"s2"}) /\ UNCHANGED <<prev, scan, issued, infra>>

SpecRegister == Init /\ [][NextRegister]_vars

\* C6: no two user rows share a username, and no two share an email.
C6_UniqueUsers ==
    \A u \in users : \A v \in users :
        u # v => u.username # v.username /\ u.email # v.email

\* two registrations of one username both passed the check; one inserted its
\* row, the other's insert was refused
C6_Witness ==
    /\ Len(procs) = 2
    /\ procs[1].user.username = procs[2].user.username
    /\ procs[1].user.email # procs[2].user.email
    /\ {procs[1].status, procs[2].status} = {201, 500}


(***************************************************************************)
(* SpecToken: create_access_token and verify_token against a clock that    *)
(* moves on.  issued remembers when each token was made and with which     *)
(* expires_delta; a verification records its time in last.at.              *)
(***************************************************************************)
\* bound on the tokens issued
MaxIssued == 1
\* bound on the ticks the clock of SpecToken advances
MaxTokenTicks == 6

\* the expires_delta arguments tried: none, zero, one tick, one second
Ttls == {None, Some(0), Some(1), Some(TicksPerSecond)}

Issue(subs, ttls, cap) ==
    /\ Cardinality(issued) < cap
    /\ \E sub \in subs, ttl \in ttls :
          issued' = issued \cup {IssuedToken(create_access_token(sub, ttl, now), now, ttl)}
    /\ UNCHANGED <<users, userSeq, todos, todoSeq, now, last>>

\* an issued token as it was made, with its signature damaged, or garbage
Tampered == {[r.token EXCEPT !.sig_ok = FALSE] : r \in issued} \cup {Garbage}

Verify(toks) ==
    \E tok \in toks :
        LET v == verify_token(tok, now)
        IN  /\ last' = [op |-> "verify", tok |-> tok, at |-> now, ok |-> v.ok,
                        status |-> v.status, detail |-> v.detail]
            /\ UNCHANGED <<users, userSeq, todos, todoSeq, now>>

NextToken ==
    \/ Issue({"alice"}, Ttls, MaxIssued) /\ UNCHANGED <<prev, scan, procs, infra>>
    \/ Verify({r.token : r \in issued} \cup Tampered)
          /\ UNCHANGED <<prev, scan, procs, issued, infra>>
    \/ Tick(TicksPerSecond + MaxTokenTicks) /\ UNCHANGED <<prev, scan, procs, issued, infra>>

SpecToken == Init /\ [][NextToken]_vars

\* the tokens as issued that the last verification was about
VerifiedIssue == {r \in issued : r.token = last.tok /\ r.ttl # None /\ r.t0 <= last.at}

OneUnauthorized ==
    /\ last.status = 401
    /\ last.detail = "Invalid authentication credentials"

\* C10 (what holds): a token issued at t0 with a ttl d other than zero
\* verifies at every time before t0+d and fails once a whole second more than
\* d has passed; a damaged signature and a malformed token always fail; every
\* failure is the same 401.
C10_Expiry ==
    last.op = "verify" =>
        /\ \A r \in VerifiedIssue : r.ttl.val # 0 =>
              /\ last.at < r.t0 + r.ttl.val => last.ok
              /\ last.at >= r.t0 + r.ttl.val + TicksPerSecond => ~last.ok
        /\ (~last.tok.wellformed \/ ~last.tok.sig_ok) => ~last.ok
        /\ ~last.ok => OneUnauthorized

\* a token issued with a ttl of zero verified at a later time
C10_Witness ==
    /\ last.op = "verify" /\ last.ok
    /\ \E r \in VerifiedIssue : r.ttl = Some(0) /\ last.at > r.t0

\* C10 (as stated): a token issued at t0 with ttl d verifies at every time
\* before t0+d and fails at every time after t0+d; expiry, a bad signature
\* and a malformed token all give the same 401.
C10_AsStated ==
    last.op = "verify" =>
        /\ \A r \in VerifiedIssue :
              /\ last.at < r.t0 + r.ttl.val => last.ok
              /\ last.at > r.t0 + r.ttl.val => ~last.ok
        /\ (~last.tok.wellformed \/ ~last.tok.sig_ok) => ~last.ok
        /\ ~last.ok => OneUnauthorized


(***************************************************************************)
(* SpecPatch: alice creates todos and PATCHes them with every combination  *)
(* of fields given or left out.                                            *)
(***************************************************************************)
AliceToken == {Token("alice", 1800, TRUE)}

PatchTitles == {None, Some(<<" ", "b">>)}
PatchDescriptions == {None, Some(DescD), Some(<<" ">>)}
PatchCompleteds == {None, Some(TRUE), Some(FALSE)}

AllPatches ==
    {Body(t, d, c) : t \in PatchTitles, d \in PatchDescriptions, c \in PatchCompleteds}

NextPatch ==
    \/ ReqCreate(AliceToken, SpecCreates, MaxTodos) /\ UNCHANGED <<prev, scan, procs, issued, infra>>
    \/ ReqUpdate(AliceToken, TodoIds, AllPatches) /\ UNCHANGED <<prev, scan, procs, issued, infra>>

SpecPatch == Init /\ [][NextPatch]_vars

\* the rows of tds other than the one with this id
Others(tds, id) == {t \in tds : t.id # id}

\* C11: a PATCH served on a todo of the caller leaves every field its body
\* does not supply as it was, and id, created_at and the owner too; it touches
\* no other row; with no field supplied the stored row is returned as it is
\* and the table is unchanged.
C11_PatchFrame ==
    [][(last'.op = "update" /\ RouteRan(last')) =>
        \A t \in todos : (t.id = last'.todo_id /\ t.user_id = last'.uid) =>
            /\ last'.status = 200
            /\ last'.out \in todos'
            /\ Others(todos', t.id) = Others(todos, t.id)
            /\ last'.out.id = t.id
            /\ last'.out.created_at = t.created_at
            /\ last'.out.user_id = t.user_id
            /\ last'.inp.title = None => last'.out.title = t.title
            /\ last'.inp.description = None => last'.out.description = t.description
            /\ last'.inp.completed = None => last'.out.completed = t.completed
            /\ (last'.inp = Body(None, None, None))
                  => (last'.out = t /\ todos' = todos)]_vars

\* a PATCH of completed alone on a todo with a description: the title and
\* the description are still there
C11_Witness ==
    /\ last.op = "update" /\ last.status = 200
    /\ last.inp = Body(None, None, Some(TRUE))
    /\ last.out.completed
    /\ last.out.description = Some(DescD)
    /\ last.out \in todos


(***************************************************************************)
(* PUT, checked under Spec                                                 *)
(***************************************************************************)
\* C12: a PUT served on a todo of the caller stores and returns the body's
\* title (stripped), its description (trimmed; absent when the body has none)
\* and its completed (false when the body has none), whatever the row held,
\* with id, created_at and owner as before and no other row touched; on an id
\* the caller owns no todo with, it answers NotFound and writes nothing.
C12_PutOverwrites ==
    [][(last'.op = "replace" /\ RouteRan(last')) =>
        IF \E t \in todos : t.id = last'.todo_id /\ t.user_id = last'.uid
        THEN \A t \in todos : (t.id = last'.todo_id /\ t.user_id = last'.uid) =>
                /\ last'.status = 200
                /\ IsStripOf(last'.out.title, last'.inp.title.val)
                /\ IsNormalizedDescriptionOf(last'.out.description, last'.inp.description)
                /\ last'.inp.description = None => last'.out.description = None
                /\ last'.out.completed =
                      (last'.inp.completed # None /\ last'.inp.completed.val)
                /\ last'.out.id = t.id
                /\ last'.out.created_at = t.created_at
                /\ last'.out.user_id = t.user_id
                /\ todos' = Others(todos, t.id) \cup {last'.out}
        ELSE IsNotFoundResponse(last') /\ todos' = todos]_vars

\* a PUT with a title only was served: the stored row has no description and
\* is not completed
C12_Witness ==
    /\ last.op = "replace" /\ last.status = 200
    /\ last.inp.description = None /\ last.inp.completed = None
    /\ last.out \in todos
    /\ last.out.description = None /\ ~last.out.completed


(***************************************************************************)
(* DELETE, checked under Spec                                              *)
(***************************************************************************)
\* the ids handed out whose row is gone: ids come from a serial and every
\* insert succeeds, so these are the ids of deleted todos
Deleted(tds, seq) == {id \in 1..seq : ~\E t \in tds : t.id = id}

\* C13: a delete served on a todo of the caller answers success and removes
\* that row and no other; the id of a deleted todo never has a row again; and
\* a get, update, replace, toggle or delete on such an id, by whichever user,
\* answers NotFound and changes nothing.
C13_DeleteIsFinal ==
    [][/\ (last'.op = "delete" /\ RouteRan(last')) =>
              \A t \in todos : (t.id = last'.todo_id /\ t.user_id = last'.uid) =>
                  /\ last'.status = 200
                  /\ last'.out.id = t.id
                  /\ todos' = todos \ {t}
       /\ Deleted(todos, todoSeq) \subseteq Deleted(todos', todoSeq')
       /\ (/\ last'.op \in ByIdOps
           /\ RouteRan(last')
           /\ last'.todo_id \in Deleted(todos, todoSeq))
              => (IsNotFoundResponse(last') /\ todos' = todos)]_vars

\* a toggle on the id of a deleted todo was answered 404 while another todo
\* is still stored
C13_Witness ==
    /\ last.op = "toggle" /\ last.status = 404
    /\ last.todo_id \in Deleted(todos, todoSeq)
    /\ todos # {}


(***************************************************************************)
(* SpecToggle: alice and bob create, get and toggle todos, one request at  *)
(* a time; prev is the request served before the last one.                 *)
(***************************************************************************)
NextToggle ==
    \/ ReqCreate(GoodTokens, {CreateBody(TitleA, Some(DescD))}, MaxTodos)
          /\ prev' = last /\ UNCHANGED <<scan, procs, issued, infra>>
    \/ ReqGet(GoodTokens, TodoIds)
          /\ prev' = last /\ UNCHANGED <<scan, procs, issued, infra>>
    \/ ReqToggle(GoodTokens, TodoIds)
          /\ prev' = last /\ UNCHANGED <<scan, procs, issued, infra>>

SpecToggle == Init /\ [][NextToggle]_vars

\* l answered a toggle of todo id for user uid with the row
ToggledOk(l, id, uid) ==
    l.op = "toggle" /\ l.status = 200 /\ l.todo_id = id /\ l.uid = uid

\* C14: a toggle served on a todo of the caller stores and returns the row
\* with completed negated and every other field as it was, and touches no
\* other row; two toggles in a row on a todo give back the row as a create or
\* a get returned it just before them.
C14_Toggle ==
    [][(last'.op = "toggle" /\ RouteRan(last')) =>
        \A t \in todos : (t.id = last'.todo_id /\ t.user_id = last'.uid) =>
            /\ last'.status = 200
            /\ last'.out = [t EXCEPT !.completed = ~t.completed]
            /\ todos' = Others(todos, t.id) \cup {last'.out}
            /\ (/\ ToggledOk(last, t.id, t.user_id)
                /\ prev.op \in {"create", "get"}
                /\ prev.status \in {200, 201}
                /\ prev.uid = t.user_id
                /\ prev.out.id = t.id)
                  => (last'.out = prev.out /\ prev.out \in todos')]_vars

\* a todo was created (completed false) and then toggled twice by its owner:
\* it is not completed again
C14_Witness ==
    /\ \E t \in todos : ToggledOk(prev, t.id, t.user_id) /\ ToggledOk(last, t.id, t.user_id)
    /\ prev.out.completed
    /\ ~last.out.completed
    /\ last.out \in todos


(***************************************************************************)
(* SpecStats: alice and bob create, toggle and delete todos and ask for    *)
(* their statistics.                                                       *)
(***************************************************************************)
MaxStatsTodos == 3

NextStats ==
    \/ ReqCreate(SpecTokens, {CreateBody(TitleA, None)}, MaxStatsTodos)
          /\ UNCHANGED <<prev, scan, procs, issued, infra>>
    \/ ReqToggle(GoodTokens, 1..MaxStatsTodos)
          /\ UNCHANGED <<prev, scan, procs, issued, infra>>
    \/ ReqDelete(GoodTokens, 1..MaxStatsTodos)
          /\ UNCHANGED <<prev, scan, procs, issued, infra>>
    \/ ReqStats(SpecTokens)
          /\ UNCHANGED <<prev, scan, procs, issued, infra>>

SpecStats == Init /\ [][NextStats]_vars

OwnedBy(tds, uid) == {t \in tds : t.user_id = uid}

\* rate, in hundredths of a percent, is completed / total * 100 to the
\* nearest hundredth
IsRateOf(rate, completed, total) ==
    LET d == rate * total - 10000 * completed
    IN  2 * d <= total /\ -2 * d <= total

\* C15: the statistics returned count the caller's todos only, total is
\* completed plus pending, and the completion rate is 0 with no todo and
\* otherwise completed / total * 100 rounded to two decimals, between 0 and
\* 100.
C15_Stats ==
    (last.op = "stats" /\ RouteRan(last)) =>
        LET mine == OwnedBy(todos, last.uid)
            o == last.out
        IN  /\ last.status = 200
            /\ o.total_todos = Cardinality(mine)
            /\ o.completed_todos = Cardinality({t \in mine : t.completed})
            /\ o.pending_todos = Cardinality({t \in mine : ~t.completed})
            /\ o.total_todos = o.completed_todos + o.pending_todos
            /\ o.total_todos = 0 => o.completion_rate = 0
            /\ o.total_todos > 0 =>
                   IsRateOf(o.completion_rate, o.completed_todos, o.total_todos)
            /\ o.completion_rate \in 0..10000

\* two of three todos completed: the rate is rounded up to 66.67
C15_Witness ==
    /\ last.op = "stats" /\ last.status = 200
    /\ last.out.total_todos = 3
    /\ last.out.completed_todos = 2
    /\ last.out.completion_rate = 6667


(***************************************************************************)
(* SpecValid: alice creates, replaces, patches and toggles todos with      *)
(* bodies on both sides of every validation rule.                          *)
(***************************************************************************)
Repeat(c, n) == [i \in 1..n |-> c]

LongTitle == Repeat("a", TitleMaxLen)
LongDesc == Repeat("d", DescMaxLen)
ScriptUpper == <<"<", "S", "C", "R", "I", "P", "T">>
ScriptEnd == <<"x", "<", "/", "S", "c", "r", "i", "p", "t", ">">>

ValidCreates ==
    {CreateBody(<<" ", "a", "\t">>, Some(<<" ", "\t">>)),
     CreateBody(LongTitle, Some(LongDesc)),
     CreateBody(<<" ">> \o LongTitle, None),
     CreateBody(<<" ">>, None),
     CreateBody(<<>>, None),
     CreateBody(<<"<", "a">>, None),
     CreateBody(<<"a">>, Some(LongDesc \o <<"d">>))}

ValidPuts ==
    {Body(<<" ", "a", " ">>, Some(<<"d", " ">>), None),
     Body(<<"a", ">">>, Some(DescD), None),
     Body(<<"\t">>, None, Some(TRUE)),
     Body(<<"a">>, Some(ScriptEnd), None)}

ValidPatches ==
    {Body(Some(<<" ", "a">>), Some(<<" ">>), None),
     Body(Some(<<>>), Some(DescD), None),
     Body(Some(<<">">>), None, None),
     Body(Some(LongTitle \o <<"a">>), None, None),
     Body(None, Some(ScriptUpper), None)}

\* bound on the rows ever inserted into todos under SpecValid
MaxValidTodos == 1

NextValid ==
    \/ ReqCreate(AliceToken, ValidCreates, MaxValidTodos)
          /\ UNCHANGED <<prev, scan, procs, issued, infra>>
    \/ ReqReplace(AliceToken, 1..MaxValidTodos, ValidPuts)
          /\ UNCHANGED <<prev, scan, procs, issued, infra>>
    \/ ReqUpdate(AliceToken, 1..MaxValidTodos, ValidPatches)
          /\ UNCHANGED <<prev, scan, procs, issued, infra>>
    \/ ReqToggle(AliceToken, 1..MaxValidTodos)
          /\ UNCHANGED <<prev, scan, procs, issued, infra>>

SpecValid == Init /\ [][NextValid]_vars

\* sub occurs in s, the letters of s taken in lower case
ContainsNoCase(s, sub) ==
    \E i \in 0..(Len(s) - Len(sub)) :
        \A j \in 1..Len(sub) : LowerChar(s[i + j]) = sub[j]

HasScriptTag(d) ==
    ContainsNoCase(d, ScriptOpen) \/ ContainsNoCase(d, ScriptClose)

Trimmed(v) == v # <<>> /\ v[1] \notin WS /\ v[Len(v)] \notin WS

TitleRule(title) ==
    /\ Trimmed(title)
    /\ ~Contains(title, <<"<">>) /\ ~Contains(title, <<">">>)
    /\ Len(title) <= TitleMaxLen

DescriptionRule(d) ==
    d.some => (Trimmed(d.val) /\ Len(d.val) <= DescMaxLen /\ ~HasScriptTag(d.val))

\* the body carries a title or a description that no trimming makes right
Violating(inp) ==
    \/ /\ inp.title.some
       /\ \/ \A i \in 1..Len(inp.title.val) : inp.title.val[i] \in WS
          \/ Contains(inp.title.val, <<"<">>) \/ Contains(inp.title.val, <<">">>)
          \/ Len(Strip(inp.title.val)) > TitleMaxLen
    \/ /\ inp.description.some
       /\ \/ HasScriptTag(inp.description.val)
          \/ Len(Strip(inp.description.val)) > DescMaxLen

\* C16: every stored todo has a trimmed, non-empty title of at most 200
\* characters without '<' or '>' and a description that is absent or trimmed,
\* non-empty, of at most 1000 characters and without a script tag in any
\* letter case; a request whose title or description breaks a rule is
\* answered with a validation error, and a validation error writes nothing.
C16_StoredFieldsValid ==
    /\ [](\A t \in todos : TitleRule(t.title) /\ DescriptionRule(t.description))
    /\ [][/\ (last'.op \in {"create", "replace", "update"} /\ Violating(last'.inp))
                 => last'.status = 422
          /\ last'.status = 422 => (todos' = todos /\ todoSeq' = todoSeq)]_vars

\* a todo with the longest title and the longest description is stored, and
\* a patch with a script tag has just been rejected
C16_Witness ==
    /\ last.op = "update" /\ last.status = 422
    /\ last.inp.description = Some(ScriptUpper)
    /\ \E t \in todos : /\ t.id = last.todo_id
                        /\ t.title = LongTitle
                        /\ t.description = Some(LongDesc)


FailRegUsernames == {"alice", "dave"}
FailRegEmails == {"b@x", "d@x"}

NextFail ==
    \/ ReqCreate(GoodTokens, {CreateBody(TitleA, None)}, MaxTodos)
          /\ UNCHANGED <<prev, scan, procs, issued, infra>>
    \/ ReqGet(SpecTokens, TodoIds)
          /\ UNCHANGED <<prev, scan, procs, issued, infra>>
    \/ ReqRegister(FailRegUsernames, FailRegEmails, {"pw2"}, {"s2"})
          /\ UNCHANGED <<prev, scan, procs, issued, infra>>
    \/ ReqFailing(HttpOps, SpecTokens)
          /\ UNCHANGED <<prev, scan, procs, issued, infra>>

SpecFail == Init /\ [][NextFail]_vars

Failed(l) == "fault" \in DOMAIN l

GenericMessage == "An internal database error occurred"

\* NotFound and AlreadyExists reach the caller as 404 and 409
PassThrough ==
    /\ (last.op = "get" /\ RouteRan(last) /\ ~Failed(last)
          /\ ~\E t \in todos : t.id = last.todo_id /\ t.user_id = last.uid)
         => IsNotFoundResponse(last)
    /\ (last.op = "register" /\ ~Failed(last) /\ last.status # 201)
         => (last.status = 409 /\ last.detail \in {UsernameExists, EmailExists})

\* the store failed while a statement inside a try ran
WrappedFault(l) ==
    /\ l.fault.at = "query"
    /\ l.fault.stage = "auth" \/ l.op # "stats"

\* C18 (what holds): a failure of a statement of the store is answered 500
\* with the generic message in every operation but stats; a failure in
\* stats, or of the acquire of a connection in any operation, is answered
\* with the server's own 500; neither carries the text of the error, and
\* NotFound and AlreadyExists reach the caller as 404 and 409.
C18_Failures ==
    /\ Failed(last) =>
          /\ last.status = 500
          /\ last.detail \in {GenericMessage, "Internal Server Error"}
          /\ WrappedFault(last) <=> last.detail = GenericMessage
    /\ PassThrough

\* the store failed under the SELECT of stats
C18_Witness ==
    /\ Failed(last)
    /\ last.op = "stats" /\ last.fault = [stage |-> "route", at |-> "query"]
    /\ last.detail = "Internal Server Error"
    /\ todos # {}

\* C18 (as stated): in every operation a failure of the backing store is
\* answered 500 with the generic message of StorageFailure, and NotFound
\* and AlreadyExists reach the caller as 404 and 409.
C18_AsStated ==
    /\ Failed(last) => (last.status = 500 /\ last.detail = GenericMessage)
    /\ PassThrough


(***************************************************************************)
(* SpecIssue: tokens are issued with and without a ttl, and by login,      *)
(* while the clock advances.                                               *)
(***************************************************************************)
NextIssue ==
    \/ Issue({"bob"}, Ttls, MaxIssued) /\ UNCHANGED <<prev, scan, procs, infra>>
    \/ ReqLogin({"alice", "zed"}, Passwords) /\ issued' = IssuedAfter(last')
          /\ UNCHANGED <<prev, scan, procs, infra>>
    \/ Tick(TicksPerSecond + MaxTicks) /\ UNCHANGED <<prev, scan, procs, issued, infra>>

SpecIssue == Init /\ [][NextIssue]_vars

\* the token's expiry is the second that t0 + d falls in
ExpiresAfter(r, d) == r.token.exp = numeric_date(r.t0 + d)

\* C19 (what holds): a token issued with a ttl other than zero expires at
\* now + ttl; one issued with no ttl, or with a zero ttl, expires at now + 15
\* minutes; the token of a login expires at now + 30 minutes.
C19_Issue ==
    /\ \A r \in issued :
          IF r.ttl.some /\ r.ttl.val # 0
          THEN ExpiresAfter(r, r.ttl.val)
          ELSE ExpiresAfter(r, minutes(DEFAULT_EXPIRE_MINUTES))
    /\ (last.op = "login" /\ last.status = 200) =>
          \E r \in issued : /\ r.token = last.out.access_token
                            /\ r.token.sub = last.inp.username
                            /\ ExpiresAfter(r, minutes(ACCESS_TOKEN_EXPIRE_MINUTES))

\* a token was issued with a zero ttl and another by a login
C19_Witness ==
    /\ \E r \in issued : r.ttl = Some(0) /\ r.token.exp > numeric_date(r.t0)
    /\ last.op = "login" /\ last.status = 200
    /\ \E r \in issued : r.token = last.out.access_token

\* C19 (as stated): a token issued with a ttl expires at now + ttl, a zero
\* ttl included; one issued with no ttl expires at now + 15 minutes.
C19_AsStated ==
    \A r \in issued :
        IF r.ttl.some
        THEN ExpiresAfter(r, r.ttl.val)
        ELSE ExpiresAfter(r, minutes(DEFAULT_EXPIRE_MINUTES))


(***************************************************************************)
(* SpecRace: toggles in flight at the same time.  A toggle is three        *)
(* statements against the store, each on a connection of its own turn:     *)
(* the SELECT of crud.get_todo, the SELECT of update_todo's existence      *)
(* check, and the UPDATE.  Statements of different requests interleave.    *)
(***************************************************************************)
TogProc(pc, uid, todo_id, read, patch, status, out) ==
    [pc |-> pc, uid |-> uid, todo_id |-> todo_id, read |-> read,
     patch |-> patch, status |-> status, out |-> out]

\* current_todo = await crud.get_todo(...); patch = TodoPatch(completed=not ...)
TogRead(toks, ids, cap) ==
    /\ Len(procs) < cap
    /\ \E tok \in toks : \E a \in get_active_user(users, tok, now) :
          /\ a.ok
          /\ \E id \in ids :
                LET current_todo == get_todo(todos, todoSeq, id, a.user.id)
                IN  procs' = Append(procs,
                        IF current_todo.err # "none"
                        THEN TogProc("done", a.user.id, id, FALSE, NoInp,
                                     http_status(current_todo.err, 200), NoRow)
                        ELSE TogProc("check", a.user.id, id,
                                     current_todo.row.completed,
                                     TodoPatch(None, None,
                                               Some(~current_todo.row.completed)),
                                     0, NoRow))
    /\ UNCHANGED <<users, userSeq, todos, todoSeq, now, last>>

\* update_todo: existing = await get_todo_or_raise(conn, todo_id, user_id)
TogCheck ==
    /\ \E i \in 1..Len(procs) :
          /\ procs[i].pc = "check"
          /\ LET p == procs[i]
                 existing == get_todo_or_raise(todos, p.todo_id, p.uid)
             IN  procs' = [procs EXCEPT ![i] =
                              IF existing.err # "none"
                              THEN [p EXCEPT !.pc = "done",
                                             !.status = http_status(existing.err, 200)]
                              ELSE [p EXCEPT !.pc = "write"]]
    /\ UNCHANGED <<users, userSeq, todos, todoSeq, now, last>>

\* update_todo: the UPDATE ... RETURNING and the response
TogWrite ==
    /\ \E i \in 1..Len(procs) :
          /\ procs[i].pc = "write"
          /\ LET p == procs[i]
                 r == returning_row(
                          update_where(todos, p.todo_id, p.uid,
                                       LAMBDA t : patch_row(t, p.patch)),
                          todoSeq)
             IN  /\ todos' = r.todos
                 /\ procs' = [procs EXCEPT ![i] =
                                 [p EXCEPT !.pc = "done",
                                           !.status = http_status(r.err, 200),
                                           !.out = r.row]]
    /\ UNCHANGED <<users, userSeq, todoSeq, now, last>>

NextRace ==
    \/ ReqCreate(AliceToken, {CreateBody(TitleA, None)}, MaxTodos)
          /\ UNCHANGED <<prev, scan, procs, issued, infra>>
    \/ TogRead(GoodTokens, 1..MaxTodos, MaxProcs) /\ UNCHANGED <<prev, scan, issued, infra>>
    \/ TogCheck /\ UNCHANGED <<prev, scan, issued, infra>>
    \/ TogWrite /\ UNCHANGED <<prev, scan, issued, infra>>

SpecRace == Init /\ [][NextRace]_vars

\* the toggles on todo id
TogglesOn(id) == {i \in 1..Len(procs) : procs[i].todo_id = id}

ToggleDone(i) == procs[i].pc = "done" /\ procs[i].status = 200

\* C20: two toggles that read the same completed value of a todo both write
\* and both return its negation, the same value to both callers; when every
\* toggle on the todo has read the same value and has returned, the stored
\* value is that negation: the todo is flipped once.
C20_LostUpdate ==
    \A i, j \in 1..Len(procs) :
        (/\ i # j
         /\ ToggleDone(i) /\ ToggleDone(j)
         /\ procs[i].todo_id = procs[j].todo_id
         /\ procs[i].read = procs[j].read) =>
            /\ procs[i].out.completed = ~procs[i].read
            /\ procs[j].out.completed = procs[i].out.completed
            /\ (\A k \in TogglesOn(procs[i].todo_id) :
                    ToggleDone(k) /\ procs[k].read = procs[i].read)
                  => \E t \in todos : /\ t.id = procs[i].todo_id
                                      /\ t.completed = ~procs[i].read

\* the lost update: two toggles of a todo that was not completed have both
\* returned completed = true, and the todo is completed
C20_Witness ==
    /\ Len(procs) = 2
    /\ ToggleDone(1) /\ ToggleDone(2)
    /\ procs[1].todo_id = procs[2].todo_id
    /\ ~procs[1].read /\ ~procs[2].read
    /\ procs[1].out.completed /\ procs[2].out.completed
    /\ \E t \in todos : t.id = procs[1].todo_id /\ t.completed


(***************************************************************************)
(* SpecDeleteRace: PATCH, PUT, toggle and DELETE requests in flight at the  *)
(* same time.  Each crud function is its existence check (the SELECT of    *)
(* get_todo_or_raise) and then its write; statements of different requests *)
(* interleave.  The bodies are valid ones.                                 *)
(***************************************************************************)
OpProc(op, pc, uid, todo_id, data, status, out) ==
    [op |-> op, pc |-> pc, uid |-> uid, todo_id |-> todo_id, data |-> data,
     status |-> status, out |-> out]

\* delete_todo: await get_todo_or_raise(conn, todo_id, user_id)
DelBegin(toks, ids, cap) ==
    /\ Len(procs) < cap
    /\ \E tok \in toks : \E a \in get_active_user(users, tok, now) :
          /\ a.ok
          /\ \E id \in ids :
                LET r == get_todo_or_raise(todos, id, a.user.id)
                IN  procs' = Append(procs,
                        IF r.err # "none"
                        THEN OpProc("delete", "done", a.user.id, id, NoInp,
                                    http_status(r.err, 200), NoRow)
                        ELSE OpProc("delete", "del_write", a.user.id, id, NoInp,
                                    0, NoRow))
    /\ UNCHANGED <<users, userSeq, todos, todoSeq, now, last>>

\* delete_todo: the DELETE; "DELETE 0" raises TodoNotFoundError
DelWrite ==
    /\ \E i \in 1..Len(procs) :
          /\ procs[i].pc = "del_write"
          /\ LET p == procs[i]
                 hit == select_todo(todos, p.todo_id, p.uid)
             IN  /\ todos' = todos \ hit
                 /\ procs' = [procs EXCEPT ![i] =
                                 [p EXCEPT !.pc = "done",
                                           !.status = IF hit = {}
                                                      THEN http_status("TodoNotFoundError", 200)
                                                      ELSE 200]]
    /\ UNCHANGED <<users, userSeq, todoSeq, now, last>>

\* update_todo up to the UPDATE: the existence check and the SET list
UpdBegin(toks, ids, bodies, cap) ==
    /\ Len(procs) < cap
    /\ \E tok \in toks : \E a \in get_active_user(users, tok, now) :
          /\ a.ok
          /\ \E id \in ids, b \in bodies :
                LET patch == TodoPatch(b.title, b.description, b.completed)
                    r == get_todo_or_raise(todos, id, a.user.id)
                IN  /\ patch.ok
                    /\ procs' = Append(procs,
                          IF r.err # "none"
                          THEN OpProc("update", "done", a.user.id, id, patch,
                                      http_status(r.err, 200), NoRow)
                          ELSE IF ~patch.title.some /\ ~patch.description.some
                                    /\ ~patch.completed.some
                               THEN OpProc("update", "done", a.user.id, id, patch,
                                           200, r.row)
                               ELSE OpProc("update", "upd_write", a.user.id, id,
                                           patch, 0, NoRow))
    /\ UNCHANGED <<users, userSeq, todos, todoSeq, now, last>>

\* update_todo: the UPDATE ... RETURNING and TodoResponse(**updated_row)
UpdWrite ==
    /\ \E i \in 1..Len(procs) :
          /\ procs[i].pc = "upd_write"
          /\ LET p == procs[i]
                 r == returning_row(
                          update_where(todos, p.todo_id, p.uid,
                                       LAMBDA t : patch_row(t, p.data)),
                          todoSeq)
             IN  /\ todos' = r.todos
                 /\ procs' = [procs EXCEPT ![i] =
                                 [p EXCEPT !.pc = "done",
                                           !.status = http_status(r.err, 200),
                                           !.out = r.row]]
    /\ UNCHANGED <<users, userSeq, todoSeq, now, last>>

\* replace_todo: await get_todo_or_raise(conn, todo_id, user_id)
RepBegin(toks, ids, bodies, cap) ==
    /\ Len(procs) < cap
    /\ \E tok \in toks : \E a \in get_active_user(users, tok, now) :
          /\ a.ok
          /\ \E id \in ids, b \in bodies :
                LET data == TodoPut(b.title, b.description, b.completed)
                    r == get_todo_or_raise(todos, id, a.user.id)
                IN  /\ data.ok
                    /\ procs' = Append(procs,
                          IF r.err # "none"
                          THEN OpProc("replace", "done", a.user.id, id, data,
                                      http_status(r.err, 200), NoRow)
                          ELSE OpProc("replace", "rep_write", a.user.id, id, data,
                                      0, NoRow))
    /\ UNCHANGED <<users, userSeq, todos, todoSeq, now, last>>

\* replace_todo: the UPDATE ... RETURNING and TodoResponse(**updated_row)
RepWrite ==
    /\ \E i \in 1..Len(procs) :
          /\ procs[i].pc = "rep_write"
          /\ LET p == procs[i]
                 r == returning_row(
                          update_where(todos, p.todo_id, p.uid,
                                       LAMBDA t : put_row(t, p.data)),
                          todoSeq)
             IN  /\ todos' = r.todos
                 /\ procs' = [procs EXCEPT ![i] =
                                 [p EXCEPT !.pc = "done",
                                           !.status = http_status(r.err, 200),
                                           !.out = r.row]]
    /\ UNCHANGED <<users, userSeq, todoSeq, now, last>>

RacePatches == {Body(None, None, None), Body(None, None, Some(TRUE))}
RacePuts == {Body(TitleA, None, Some(TRUE))}

NextDeleteRace ==
    \/ ReqCreate(AliceToken, {CreateBody(TitleA, None)}, MaxTodos)
          /\ UNCHANGED <<prev, scan, procs, issued, infra>>
    \/ DelBegin(AliceToken, 1..MaxTodos, MaxProcs) /\ UNCHANGED <<prev, scan, issued, infra>>
    \/ DelWrite /\ UNCHANGED <<prev, scan, issued, infra>>
    \/ UpdBegin(AliceToken, 1..MaxTodos, RacePatches, MaxProcs)
          /\ UNCHANGED <<prev, scan, issued, infra>>
    \/ UpdWrite /\ UNCHANGED <<prev, scan, issued, infra>>
    \/ RepBegin(AliceToken, 1..MaxTodos, RacePuts, MaxProcs)
          /\ UNCHANGED <<prev, scan, issued, infra>>
    \/ RepWrite /\ UNCHANGED <<prev, scan, issued, infra>>
    \/ TogRead(AliceToken, 1..MaxTodos, MaxProcs) /\ UNCHANGED <<prev, scan, issued, infra>>
    \/ TogCheck /\ UNCHANGED <<prev, scan, issued, infra>>
    \/ TogWrite /\ UNCHANGED <<prev, scan, issued, infra>>

SpecDeleteRace == Init /\ [][NextDeleteRace]_vars

\* a toggle in flight carries no op field
OpOf(p) == IF "op" \in DOMAIN p THEN p.op ELSE "toggle"

Finished(i) == procs[i].pc = "done"

\* the deletes of todo id that answered success
DeletedOk(id) ==
    {i \in 1..Len(procs) :
        /\ OpOf(procs[i]) = "delete" /\ procs[i].todo_id = id
        /\ Finished(i) /\ procs[i].status = 200}

RowGone(id) == ~\E t \in todos : t.id = id

\* C21 (what holds): a request ends in 200, 404 or 500; 500 is the answer
\* of an update, a replace or a toggle whose row was deleted between its
\* existence check and its write; a delete never answers 500, at most one
\* delete of a todo answers success, and once one has, the row is gone.
C21_DeleteRace ==
    /\ \A i \in 1..Len(procs) : Finished(i) =>
          /\ procs[i].status \in {200, 404, 500}
          /\ procs[i].status = 500 =>
                /\ OpOf(procs[i]) \in {"update", "replace", "toggle"}
                /\ RowGone(procs[i].todo_id)
                /\ DeletedOk(procs[i].todo_id) # {}
    /\ \A id \in 1..todoSeq :
          /\ Cardinality(DeletedOk(id)) <= 1
          /\ DeletedOk(id) # {} => RowGone(id)
          /\ (\E i \in 1..Len(procs) : OpOf(procs[i]) = "delete" /\ procs[i].todo_id = id
                                        /\ procs[i].pc = "del_write")
                => (RowGone(id) <=> DeletedOk(id) # {})

\* a PATCH passed its existence check, a DELETE of the same todo removed the
\* row, and the PATCH answered 500
C21_Witness ==
    /\ Len(procs) = 2
    /\ OpOf(procs[1]) = "update" /\ OpOf(procs[2]) = "delete"
    /\ procs[1].todo_id = procs[2].todo_id
    /\ Finished(1) /\ Finished(2)
    /\ procs[1].status = 500 /\ procs[2].status = 200

\* C21 (as stated): every update, replace, toggle and delete that runs
\* beside a delete of the same todo ends in success or in NotFound, and of
\* two deletes of a todo exactly one answers success.
C21_AsStated ==
    /\ \A i \in 1..Len(procs) : Finished(i) => procs[i].status \in {200, 404}
    /\ \A id \in 1..todoSeq : Cardinality(DeletedOk(id)) <= 1


\* registrations i and j ask for the same username or the same email
Collide(i, j) ==
    \/ procs[i].user.username = procs[j].user.username
    \/ procs[i].user.email = procs[j].user.email

Registered(i) == procs[i].pc = "done" /\ procs[i].status = 201

\* C22 (what holds): of the registrations that ask for one username or one
\* email at most one creates a user, and no two rows share either; a
\* registration that finds the row at its check answers 409 naming a field
\* that is taken; one that passed its check before the other's insert
\* answers 500, and only then.
C22_RegisterRace ==
    /\ \A i, j \in 1..Len(procs) :
          (i # j /\ Collide(i, j)) => ~(Registered(i) /\ Registered(j))
    /\ \A u, v \in users : u # v => (u.username # v.username /\ u.email # v.email)
    /\ \A i \in 1..Len(procs) : procs[i].pc = "done" =>
          /\ procs[i].status \in {201, 409, 500}
          /\ procs[i].status = 409 =>
                \/ procs[i].detail = "username"
                     /\ UsernameTaken(users, procs[i].user.username)
                \/ procs[i].detail = "email"
                     /\ EmailTaken(users, procs[i].user.email)
          /\ procs[i].status = 500 =>
                \E j \in 1..Len(procs) : j # i /\ Registered(j) /\ Collide(i, j)

\* two registrations of one email under two usernames both passed the
\* check; the first inserted its row, the second answered 500
C22_Witness ==
    /\ Len(procs) = 2
    /\ procs[1].user.email = procs[2].user.email
    /\ procs[1].user.username # procs[2].user.username
    /\ procs[1].pc = "done" /\ procs[2].pc = "done"
    /\ procs[1].status = 201 /\ procs[2].status = 500
    /\ Cardinality(users) = Cardinality(ThreeUsers) + 1

\* C22 (as stated): of two registrations with one username or one email
\* exactly one creates a user and the other answers 409; none answers 500
\* and no two rows share a username or an email.
C22_AsStated ==
    /\ \A i \in 1..Len(procs) : procs[i].pc = "done" => procs[i].status \in {201, 409}
    /\ \A i, j \in 1..Len(procs) :
          (i # j /\ Collide(i, j)) => ~(Registered(i) /\ Registered(j))
    /\ \A u, v \in users : u # v => (u.username # v.username /\ u.email # v.email)


(***************************************************************************)
(* SpecPool: requests borrowing connections of the pool.  Every database   *)
(* function is one `async with pool.acquire() as conn:` block: it waits    *)
(* for an idle connection, runs its statements and gives the connection    *)
(* back when the block is left, by return or by exception.  A request is   *)
(* the sequence of the blocks it enters; what its statements find is left  *)
(* open here.                                                              *)
(***************************************************************************)
\* bound on the size of the pool
MaxPool == 2

PoolOps == {"register", "get", "toggle"}

\* the database functions a request calls, in order
Blocks(op) ==
    CASE op = "register" -> <<"create_user">>
      [] op = "get" -> <<"get_user_by_username", "get_todo">>
      [] op = "toggle" -> <<"get_user_by_username", "get_todo", "update_todo">>

\* how a block can end: "ok", or the exception that leaves it (for
\* get_user_by_username, the 401 get_current_user raises on None)
Outcomes(block) ==
    CASE block = "create_user" -> {"ok", "UserAlreadyExistsError", "DatabaseError"}
      [] block = "get_user_by_username" -> {"ok", "Unauthorized", "DatabaseError"}
      [] OTHER -> {"ok", "TodoNotFoundError", "DatabaseError"}

outcome_status(op, result) ==
    CASE result = "ok" -> IF op = "register" THEN 201 ELSE 200
      [] result = "Unauthorized" -> 401
      [] result = "TodoNotFoundError" -> 404
      [] result = "UserAlreadyExistsError" -> 409
      [] OTHER -> 500

PoolProc(op, pc, plan, conns, result, status) ==
    [op |-> op, pc |-> pc, plan |-> plan, conns |-> conns, result |-> result,
     status |-> status]

\* a request that enters its next block while still inside the last one
may_acquire_nested(p) == p.pc \in {"acquire", "run"}

\* a request asks for a connection only between blocks
may_acquire(p) == p.pc = "acquire"

\* a pool that gets the connection back only when the block returned
released_on_return(idle, conns, result) ==
    IF result = "ok" THEN idle \cup conns ELSE idle

\* the exit of `async with`: the connection goes back whatever left the block
released(idle, conns, result) == idle \cup conns

PoolFrame ==
    UNCHANGED <<users, userSeq, todos, todoSeq, now, last, prev, scan, issued,
                migrations, executed>>

PoolArrive(ops, cap) ==
    /\ Len(procs) < cap
    /\ \E op \in ops :
          procs' = Append(procs, PoolProc(op, "acquire", Blocks(op), {}, "", 0))
    /\ UNCHANGED pool
    /\ PoolFrame

\* pool.acquire(): waits while no connection is idle
PoolAcquire(i) ==
    /\ i \in 1..Len(procs)
    /\ may_acquire(procs[i])
    /\ pool # {}
    /\ \E c \in pool :
          /\ pool' = pool \ {c}
          /\ procs' = [procs EXCEPT ![i] = [@ EXCEPT !.pc = "run",
                                                     !.conns = @ \cup {c}]]
    /\ PoolFrame

\* pool.acquire() raises: the request ends without a connection
PoolAcquireFails(i) ==
    /\ i \in 1..Len(procs)
    /\ procs[i].pc = "acquire"
    /\ procs' = [procs EXCEPT ![i] = [@ EXCEPT !.pc = "done", !.status = 500]]
    /\ UNCHANGED pool
    /\ PoolFrame

\* the statements of the block run, to a return or to an exception
PoolRun(i) ==
    /\ i \in 1..Len(procs)
    /\ procs[i].pc = "run"
    /\ \E result \in Outcomes(Head(procs[i].plan)) :
          procs' = [procs EXCEPT ![i] = [@ EXCEPT !.pc = "release",
                                                     !.result = result]]
    /\ UNCHANGED pool
    /\ PoolFrame

\* the block is left: the connection goes back, and the request goes on to
\* its next block or answers
PoolRelease(i) ==
    /\ i \in 1..Len(procs)
    /\ procs[i].pc = "release"
    /\ LET p == procs[i]
           more == p.result = "ok" /\ Len(p.plan) > 1
       IN  /\ pool' = released(pool, p.conns, p.result)
           /\ procs' = [procs EXCEPT ![i] =
                           [p EXCEPT !.conns = {},
                                     !.plan = Tail(p.plan),
                                     !.pc = IF more THEN "acquire" ELSE "done",
                                     !.status = IF more THEN 0
                                                ELSE outcome_status(p.op, p.result)]]
    /\ PoolFrame

InitPool ==
    /\ users = ThreeUsers /\ userSeq = 3 /\ todos = {} /\ todoSeq = 0
    /\ now = TicksPerSecond /\ last = Idle /\ prev = Idle /\ scan = NoScan
    /\ procs = <<>> /\ issued = {} /\ migrations = {} /\ executed = <<>>
    /\ \E size \in 1..MaxPool : pool = 1..size

NextPool ==
    \/ PoolArrive(PoolOps, MaxProcs)
    \/ \E i \in 1..MaxProcs : PoolAcquire(i)
    \/ \E i \in 1..MaxProcs : PoolAcquireFails(i)
    \/ \E i \in 1..MaxProcs : PoolRun(i)
    \/ \E i \in 1..MaxProcs : PoolRelease(i)

SpecPool == InitPool /\ [][NextPool]_vars

\* the connections requests hold
Held == UNION {procs[i].conns : i \in 1..Len(procs)}

AllFinished == \A i \in 1..Len(procs) : procs[i].pc = "done"

\* C23: every connection is either idle in the pool or held by one request
\* in flight; a request that has answered, with success or with any error,
\* holds none, so when every request has answered the pool is whole again.
C23_ConnectionsReturned ==
    /\ \E size \in 1..MaxPool : pool \cup Held = 1..size
    /\ pool \cap Held = {}
    /\ \A i, j \in 1..Len(procs) : i # j => procs[i].conns \cap procs[j].conns = {}
    /\ \A i \in 1..Len(procs) : procs[i].pc = "done" => procs[i].conns = {}
    /\ AllFinished => Held = {}

\* both requests have answered, one with 404 and one with 500 after its
\* statement failed, and both connections are idle
C23_Witness ==
    /\ Len(procs) = 2 /\ AllFinished
    /\ procs[1].status = 404
    /\ procs[2].status = 500 /\ procs[2].result = "DatabaseError"
    /\ pool = 1..2


\* the event loop runs every task that can go on, and a task waiting in
\* pool.acquire() gets a connection once one stays idle
PoolFairness ==
    \A i \in 1..MaxProcs :
        /\ WF_vars(PoolAcquire(i))
        /\ WF_vars(PoolRun(i))
        /\ WF_vars(PoolRelease(i))

\* the requests of the route that borrows most often: identity, read, write
NextPoolToggle ==
    \/ PoolArrive({"toggle"}, MaxProcs)
    \/ \E i \in 1..MaxProcs : PoolAcquire(i)
    \/ \E i \in 1..MaxProcs : PoolAcquireFails(i)
    \/ \E i \in 1..MaxProcs : PoolRun(i)
    \/ \E i \in 1..MaxProcs : PoolRelease(i)

SpecPoolLive == InitPool /\ [][NextPoolToggle]_vars /\ PoolFairness

\* C24: no request holds more than one connection at a time, and with a
\* pool of any size from 1 up and any number of requests in flight every
\* request that arrived eventually answers, with success or with an error.
C24_OneConnection ==
    /\ [](\A i \in 1..Len(procs) : Cardinality(procs[i].conns) <= 1)
    /\ \A i \in 1..MaxProcs :
          (Len(procs) >= i) ~> (Len(procs) >= i /\ procs[i].pc = "done")

\* a toggle is in its third block, the write, holding the only connection
\* left while another request waits for one
C24_Witness ==
    /\ pool = {}
    /\ \E i, j \in 1..Len(procs) :
          /\ procs[i].op = "toggle" /\ procs[i].pc = "run"
          /\ procs[i].plan = <<"update_todo">>
          /\ Cardinality(procs[i].conns) = 1
          /\ procs[j].pc = "acquire" /\ procs[j].conns = {}


(***************************************************************************)
(* The second stage of the identity check, checked under SpecAuth          *)
(***************************************************************************)
\* the tokens a client can hold: those the logins handed out
HeldTokens == {r.token : r \in issued}

\* C25: no response is the 400 "Inactive user" of get_active_user: whoever
\* get_current_user resolves has the active flag set, so the second stage
\* changes no outcome, and a good token of a deactivated account is refused
\* by the first stage with 401.
C25_NoInactiveAccount ==
    /\ last.status # 400 /\ last.detail # "Inactive user"
    /\ \A tok \in HeldTokens :
          /\ \A c \in get_current_user(users, tok, now) : c.ok => c.user.is_active
          /\ get_active_user(users, tok, now) = get_current_user(users, tok, now)
          /\ (\E u \in users : u.username = tok.sub /\ ~u.is_active)
                => get_active_user(users, tok, now) = {AuthError(401, "User not found")}
    /\ (last.op \in {"me", "get"} /\ last.uid # 0)
          => \E u \in users : u.id = last.uid /\ u.is_active

\* GET /todos/1 with a token a login gave alice, still good, after alice was
\* deactivated: refused with 401 "User not found"
C25_Witness ==
    /\ last.op = "get" /\ last.status = 401 /\ last.detail = "User not found"
    /\ last.tok \in HeldTokens /\ verify_token(last.tok, now).ok
    /\ \E u \in users : u.username = last.tok.sub /\ ~u.is_active


(***************************************************************************)
(* SpecClear: alice creates todos with and without a description and then  *)
(* PUTs, PATCHes and toggles them, the PATCH bodies with a description, a   *)
(* blank one, or none.                                                     *)
(***************************************************************************)
Blank == <<" ">>

ClearCreates == SpecCreates \cup {CreateBody(TitleA, Some(Blank))}
ClearPatches ==
    {Body(None, d, c) : d \in {None, Some(DescD), Some(Blank)}, c \in {None, Some(TRUE)}}

NextClear ==
    \/ ReqCreate(AliceToken, ClearCreates, MaxTodos)
          /\ UNCHANGED <<prev, scan, procs, issued, infra>>
    \/ ReqReplace(AliceToken, 1..MaxTodos, SpecPuts)
          /\ UNCHANGED <<prev, scan, procs, issued, infra>>
    \/ ReqUpdate(AliceToken, 1..MaxTodos, ClearPatches)
          /\ UNCHANGED <<prev, scan, procs, issued, infra>>
    \/ ReqToggle(AliceToken, 1..MaxTodos)
          /\ UNCHANGED <<prev, scan, procs, issued, infra>>

SpecClear == Init /\ [][NextClear]_vars

\* an Optional[str] that is null or holds white space only
NullOrBlank(d) == IF d.some THEN Strip(d.val) = <<>> ELSE TRUE

\* C26: a PATCH whose description is null or blank leaves the stored
\* description as it was, and no PATCH takes a description away: a todo's
\* description goes from present to absent only in a PUT, and a row that
\* appears without one was created in that step.
C26_PatchNeverClears ==
    [][/\ (last'.op = "update" /\ RouteRan(last')
              /\ NullOrBlank(last'.inp.description))
          => \A t \in todos : t.id = last'.todo_id =>
                \E t2 \in todos' : t2.id = t.id /\ t2.description = t.description
       /\ \A t \in todos, t2 \in todos' :
             (t2.id = t.id /\ t.description.some /\ ~t2.description.some)
                => (last'.op = "replace" /\ last'.todo_id = t.id
                    /\ last'.status = 200)
       /\ \A t2 \in todos' :
             ((\A t \in todos : t.id # t2.id) /\ ~t2.description.some)
                => (last'.op = "create" /\ last'.status = 201
                    /\ NullOrBlank(last'.inp.description))]_vars

\* a PATCH with a blank description and completed = true was served on a
\* todo that has a description: the description is still stored
C26_Witness ==
    /\ last.op = "update" /\ last.status = 200
    /\ last.inp = Body(None, Some(Blank), Some(TRUE))
    /\ last.out.description = Some(DescD) /\ last.out.completed
    /\ last.out \in todos


(***************************************************************************)
(* SpecListRace: GET /todos in flight while the same owner creates and     *)
(* deletes todos.  list_todos runs its count query and then its page query  *)
(* on one connection, outside any transaction: each statement sees the     *)
(* table as it is when it runs, and writes of other requests can fall      *)
(* between the two.  at_count and at_page remember the table each query    *)
(* saw.                                                                    *)
(***************************************************************************)
ListCall(completed, search, page, page_size, total_count, at_count, at_page) ==
    [completed |-> completed, search |-> search, page |-> page,
     page_size |-> page_size, total_count |-> total_count,
     at_count |-> at_count, at_page |-> at_page]

\* list_todos up to the count query: total_count = await conn.fetchval(...)
ListCount(toks, completeds, pages, sizes, cap) ==
    /\ Len(procs) < cap
    /\ \E tok \in toks : \E a \in get_active_user(users, tok, now) :
          /\ a.ok
          /\ \E completed \in completeds, page \in pages, page_size \in sizes :
                /\ ListQuery(completed, None, page, page_size).ok
                /\ procs' = Append(procs,
                      OpProc("list", "list_page", a.user.id, 0,
                             ListCall(completed, None, page, page_size,
                                      count_todos(todos, a.user.id, completed, None),
                                      todos, {}),
                             0, NoRow))
    /\ UNCHANGED <<users, userSeq, todos, todoSeq, now, last>>

\* list_todos: the page query, rows = await conn.fetch(...), and the response
ListPage ==
    /\ \E i \in 1..Len(procs) :
          /\ procs[i].pc = "list_page"
          /\ LET p == procs[i]
                 q == p.data
                 matching == {t \in todos : list_where(t, p.uid, q.completed, q.search)}
             IN  \E ord \in OrderByCreatedAtDesc(matching) :
                    procs' = [procs EXCEPT ![i] =
                        [p EXCEPT !.pc = "done", !.status = 200,
                                  !.data = [q EXCEPT !.at_page = todos],
                                  !.out = Pagination(
                                      LimitOffset(ord, q.page_size,
                                                  page_offset(q.page, q.page_size)),
                                      q.total_count, q.page, q.page_size,
                                      total_pages_of(q.total_count, q.page_size))]]
    /\ UNCHANGED <<users, userSeq, todos, todoSeq, now, last>>

\* bound on the list calls started
MaxLists == 1

NextListRace ==
    \/ ReqCreate(AliceToken, {CreateBody(TitleA, None)}, MaxTodos)
          /\ UNCHANGED <<prev, scan, procs, issued, infra>>
    \/ ReqDelete(AliceToken, 1..MaxTodos)
          /\ UNCHANGED <<prev, scan, procs, issued, infra>>
    \/ ListCount(AliceToken, {None}, {1}, {1, 2}, MaxLists)
          /\ UNCHANGED <<prev, scan, issued, infra>>
    \/ ListPage /\ UNCHANGED <<prev, scan, issued, infra>>

SpecListRace == Init /\ [][NextListRace]_vars

ListDone(i) == procs[i].op = "list" /\ procs[i].pc = "done"

\* the todos matching the call p in the table tds
MatchingCall(p, tds) ==
    {t \in tds : list_where(t, p.uid, p.data.completed, p.data.search)}

ItemsOf(p) == {p.out.todos[k] : k \in 1..Len(p.out.todos)}

\* C27 (what holds): total_count is the number of matching todos in the table
\* the count query saw and the items are matching todos of the table the page
\* query saw, at most page_size of them; the response agrees with a single
\* state of the store when no write fell between the two queries.
C27_ListRace ==
    \A i \in 1..Len(procs) : ListDone(i) =>
        LET p == procs[i]
        IN  /\ p.out.total_count = Cardinality(MatchingCall(p, p.data.at_count))
            /\ ItemsOf(p) \subseteq MatchingCall(p, p.data.at_page)
            /\ Len(p.out.todos) <= p.data.page_size
            /\ p.data.at_count = p.data.at_page =>
                  /\ p.out.total_count = Cardinality(MatchingCall(p, p.data.at_page))
                  /\ Len(p.out.todos) <= p.out.total_count

\* a list call counted one todo, the todo was deleted, and the page query
\* found nothing: total_count = 1 with no items on page 1
C27_Witness ==
    \E i \in 1..Len(procs) :
        /\ ListDone(i)
        /\ procs[i].out.total_count = 1 /\ procs[i].out.page = 1
        /\ procs[i].out.todos = <<>>
        /\ MatchingCall(procs[i], procs[i].data.at_page) = {}

\* C27 (as stated): total_count equals the number of matching todos in the
\* state the returned items were read from
C27_AsStated ==
    \A i \in 1..Len(procs) : ListDone(i) =>
        procs[i].out.total_count
            = Cardinality(MatchingCall(procs[i], procs[i].data.at_page))


(***************************************************************************)
(* app/database/migrate.py: MigrationManager.  SpecMigrate: runs of        *)
(* migrate(), one after another or at the same time (two instances of the  *)
(* application starting), each on a connection of its own.  The files of   *)
(* the migrations directory are named by their numbers.  A run can stop    *)
(* between two statements.                                                 *)
(***************************************************************************)
MigrationFiles == {1, 2, 3}

\* sorted(files): ascending
RECURSIVE sorted(_)
sorted(files) ==
    IF files = {} THEN <<>>
    ELSE LET first == CHOOSE f \in files : \A g \in files : f <= g
         IN  <<first>> \o sorted(files \ {first})

\* a pending list that ignores the table migrations
get_pending_migrations_all(recorded, files) == sorted(files)

\* get_pending_migrations: the files, sorted, that table migrations lacks
get_pending_migrations(recorded, files) == sorted(files \ recorded)

\* one run of migrate(): the files still to run and those whose SQL it ran
MigProc(pc, pending, ran) == [pc |-> pc, pending |-> pending, ran |-> ran]

\* migrate() up to the loop: connect, create_migrations_table (IF NOT
\* EXISTS), get_pending_migrations; returns when nothing is pending
MigStart(cap) ==
    /\ Len(procs) < cap
    /\ LET pending == get_pending_migrations(migrations, MigrationFiles)
       IN  procs' = Append(procs,
               MigProc(IF pending = <<>> THEN "done" ELSE "sql", pending, <<>>))
    /\ UNCHANGED <<users, userSeq, todos, todoSeq, now, last, migrations, executed>>

\* run_migration: await conn.execute(sql_content)
MigSql ==
    /\ \E i \in 1..Len(procs) :
          /\ procs[i].pc = "sql"
          /\ executed' = Append(executed, Head(procs[i].pending))
          /\ procs' = [procs EXCEPT ![i] =
                          [@ EXCEPT !.pc = "record",
                                    !.ran = Append(@, Head(procs[i].pending))]]
    /\ UNCHANGED <<users, userSeq, todos, todoSeq, now, last, migrations>>

\* the file's SQL raises and takes no effect: migrate() prints and re-raises
MigSqlFails ==
    /\ \E i \in 1..Len(procs) :
          /\ procs[i].pc = "sql"
          /\ procs' = [procs EXCEPT ![i] = [@ EXCEPT !.pc = "failed"]]
    /\ UNCHANGED <<users, userSeq, todos, todoSeq, now, last, migrations, executed>>

\* run_migration: INSERT INTO migrations (filename); filename is UNIQUE
MigRecord ==
    /\ \E i \in 1..Len(procs) :
          /\ procs[i].pc = "record"
          /\ LET p == procs[i]
                 f == Head(p.pending)
             IN  IF f \in migrations
                 THEN /\ procs' = [procs EXCEPT ![i] = [p EXCEPT !.pc = "failed"]]
                      /\ UNCHANGED migrations
                 ELSE /\ migrations' = migrations \cup {f}
                      /\ procs' = [procs EXCEPT ![i] =
                            [p EXCEPT !.pending = Tail(p.pending),
                                      !.pc = IF Tail(p.pending) = <<>> THEN "done"
                                             ELSE "sql"]]
    /\ UNCHANGED <<users, userSeq, todos, todoSeq, now, last, executed>>

\* the run stops after the file's SQL and before the INSERT (the process is
\* stopped or the connection lost)
MigInterrupt ==
    /\ \E i \in 1..Len(procs) :
          /\ procs[i].pc = "record"
          /\ procs' = [procs EXCEPT ![i] = [@ EXCEPT !.pc = "failed"]]
    /\ UNCHANGED <<users, userSeq, todos, todoSeq, now, last, migrations, executed>>

NextMigrate ==
    \/ MigStart(MaxProcs) /\ UNCHANGED <<prev, scan, issued, pool>>
    \/ MigSql /\ UNCHANGED <<prev, scan, issued, pool>>
    \/ MigSqlFails /\ UNCHANGED <<prev, scan, issued, pool>>
    \/ MigRecord /\ UNCHANGED <<prev, scan, issued, pool>>
    \/ MigInterrupt /\ UNCHANGED <<prev, scan, issued, pool>>

SpecMigrate == Init /\ [][NextMigrate]_vars

\* how often file f's SQL was executed
Executions(f) == Cardinality({k \in 1..Len(executed) : executed[k] = f})

Ascending(seq) == \A j, k \in 1..Len(seq) : j < k => seq[j] < seq[k]

\* C28 (what holds): a recorded file's SQL has been executed; each run
\* executes files in sorted order, none twice, and only files that table
\* migrations lacked when the run started; a single run that completes
\* executes every file exactly once, in sorted order, and records it; and a
\* run started when every file is recorded executes nothing.
C28_Migrate ==
    /\ [](/\ \A f \in migrations : Executions(f) >= 1
          /\ \A i \in 1..Len(procs) : Ascending(procs[i].ran)
          /\ Len(procs) = 1 => (executed = procs[1].ran /\ Ascending(executed))
          /\ (Len(procs) = 1 /\ procs[1].pc = "done")
                => (executed = sorted(MigrationFiles)
                    /\ migrations = MigrationFiles))
    /\ [][(Len(procs') > Len(procs) /\ migrations = MigrationFiles)
             => /\ procs'[Len(procs')].pc = "done"
                /\ procs'[Len(procs')].pending = <<>>]_vars

\* the first run stopped after file 1's SQL and before recording it; the
\* second run executed file 1 again
C28_Witness ==
    /\ Len(procs) = 2
    /\ procs[1].pc = "failed" /\ procs[1].ran = <<1>>
    /\ procs[2].ran = <<1>>
    /\ executed = <<1, 1>>

\* C28 (as stated): over any sequence of runs each file's SQL is executed at
\* most once, in sorted order, and exactly once when every file is recorded
C28_AsStated ==
    /\ \A f \in MigrationFiles : Executions(f) <= 1
    /\ Ascending(executed)
    /\ migrations = MigrationFiles => \A f \in MigrationFiles : Executions(f) = 1

====
